---- MODULE Spec2Model ----
(***************************************************************************)
(* The UMLS terminology import of packages/generator (src/unnamed/part_000 *)
(* lines 530-1168): main runs addSources, processConcepts,                 *)
(* processProperties, prepareRelationshipProperties and                    *)
(* processRelationships in sequence; every pass streams a pipe-delimited   *)
(* file line by line, filters the rows, and posts batches of codings or    *)
(* properties to CodeSystem/$import.                                       *)
(*                                                                         *)
(* Strings are TLA+ strings and are concatenated as the code concatenates  *)
(* them.  A JavaScript object whose key order is observed (Object.entries) *)
(* is a sequence of entries [k, v] in insertion order; an object that is   *)
(* only looked up by key is a function.  An `await` is a step boundary:    *)
(* the pass stops at pc = "send" until the post completes or rejects.      *)
(***************************************************************************)
EXTENDS Integers, Sequences, FiniteSets, TLC

VARIABLES
    stage,          \* the function main is executing
    pc,             \* the position inside that function
    nread,          \* lines the current pass has consumed from its readline stream
    processed,      \* let processed
    skipped,        \* let skipped
    counts,         \* const counts (insertion-ordered object)
    codings,        \* const codings of processConcepts (insertion-ordered object)
    properties,     \* const properties of processProperties / processRelationships
    mappedConcepts, \* const mappedConcepts, returned to main as mappedCodes
    inflight,       \* the batch handed to the post that is being awaited
    finalIdx,       \* index into Object.entries(...) of the end-of-stream loop
    sent,           \* the batches posted by the current pass, in post order, and how each settled
    dest,           \* the destination's display per (system, code), last write wins
    summary,        \* the per-key count lines the current pass has printed
    errlog,         \* what console.error and console.warn printed
    emitted,        \* history: per system, the items the current pass built, in order
    created,        \* the systems addSources has ensured a CodeSystem for, in order
    propertyMappings,       \* const propertyMappings of prepareRelationshipProperties
    relationshipProperties, \* what prepareRelationshipProperties returned to main
    missing,        \* the input files that do not exist under 2023AB/META
    accepted,       \* history: the concept records that passed the four filters
    run,            \* harness: 1 for the first run, 2 for the run on a permutation of its file
    fed,            \* harness: the lines the current run has consumed, in order
    todo,           \* harness: positions of the first file the second run has yet to read
    first,          \* harness: the first run's file and what the run ended with
    ledger          \* history: per returned pass and system, items built and batches posted

progVars == <<stage, pc, nread, processed, skipped, counts, codings, properties,
              mappedConcepts, inflight, finalIdx, sent, dest, summary, errlog, emitted,
              created, propertyMappings, relationshipProperties, missing>>
\* What main holds outside processConcepts and the two property passes.
mainVars == <<created, propertyMappings, relationshipProperties, missing>>
harnessVars == <<accepted, run, fed, todo, first, ledger>>
vars == <<progVars, harnessVars>>

(***************************************************************************)
(* Bounds of the model.                                                    *)
(***************************************************************************)
\* The literal 500 of the capacity tests (lines 738, 948, 1112), scaled down:
\* the code reads it only in `length >= 500`.
BatchSize == 2
\* The longest concept file a behaviour reads.
MaxConceptLines == 3

\* What a destructuring assignment binds when the line has too few columns.
\* As a property key or in a concatenation JavaScript turns it into this text.
Undefined == "undefined"

(***************************************************************************)
(* Insertion-ordered objects.                                              *)
(***************************************************************************)
Has(o, k) == \E i \in 1..Len(o) : o[i].k = k

Get(o, k) == o[CHOOSE i \in 1..Len(o) : o[i].k = k].v

Put(o, k, v) ==
    IF Has(o, k)
    THEN [i \in 1..Len(o) |-> IF o[i].k = k THEN [k |-> k, v |-> v] ELSE o[i]]
    ELSE Append(o, [k |-> k, v |-> v])

(***************************************************************************)
(* umlsSources, restricted to two of its seven entries.                    *)
(***************************************************************************)
umlsSources ==
    [SNOMEDCT_US |-> [system |-> "http://snomed.info/sct", tty |-> <<"FN", "PT", "SY">>],
     LNC |-> [system |-> "http://loinc.org",
              tty |-> <<"LC", "LPDN", "LA", "DN", "HC", "LN", "LG">>]]

\* umlsSources[sab] is truthy
IsSource(sab) == sab \in DOMAIN umlsSources

\* Array.prototype.includes
Includes(arr, x) == \E i \in 1..Len(arr) : arr[i] = x

\* Array.prototype.indexOf, zero-based, -1 when absent
IndexOf(arr, x) ==
    IF Includes(arr, x) THEN (CHOOSE i \in 1..Len(arr) :
                                 arr[i] = x /\ \A j \in 1..(i - 1) : arr[j] # x) - 1
    ELSE -1

Systems == {umlsSources[s].system : s \in DOMAIN umlsSources}

(***************************************************************************)
(* UmlsConcept: the columns of line.split('|') bound by position.          *)
(***************************************************************************)
\* Mutant: a column the line does not have reads as 'N'.
Col_DefaultN(cols, i) == IF i <= Len(cols) THEN cols[i] ELSE "N"

Col(cols, i) == IF i <= Len(cols) THEN cols[i] ELSE Undefined

UmlsConcept(cols) ==
    [LAT |-> Col(cols, 2), AUI |-> Col(cols, 8), SAB |-> Col(cols, 12),
     TTY |-> Col(cols, 13), CODE |-> Col(cols, 14), STR |-> Col(cols, 15),
     SUPPRESS |-> Col(cols, 17)]

\* A well-formed MRCONSO.RRF row, split; the columns the code never reads are fixed.
ConceptRow(lat, aui, sab, tty, code, str, suppress) ==
    <<"C0000001", lat, "P", "L0000001", "PF", "S0000001", "Y", aui, "", "", "",
      sab, tty, code, str, "0", suppress>>

\* The string of each atom of the model's files: an atom identifier names one string.
AtomStr == [A1 |-> "alpha", A2 |-> "beta", A3 |-> "gamma", A4 |-> "delta"]

ConceptLines ==
    { ConceptRow(lat, aui, sab, tty, code, AtomStr[aui], sup) :
        lat \in {"ENG", "SPA"}, aui \in {"A1", "A2"},
        sab \in {"SNOMEDCT_US", "LNC", "MSH"}, tty \in {"FN", "PT", "SY", "LN"},
        code \in {"100", "200"}, sup \in {"N", "O"} }

(***************************************************************************)
(* processConcepts, lines 687-760.                                         *)
(***************************************************************************)
\* Mutant: the object is replaced by one that holds the new key alone.
Assign_Replaced(m, k, v) == [x \in {k} |-> v]

\* obj[k] = v on an object that is only looked up
Assign(m, k, v) == [x \in DOMAIN m \cup {k} |-> IF x = k THEN v ELSE m[x]]

\* Mutant: the record is not stored under its atom identifier.
IndexAtom_Skipped(m, concept) == m

\* Line 715: mappedConcepts[concept.AUI] = concept
IndexAtom(m, concept) == Assign(m, concept.AUI, concept)

\* Mutant: the winner is stored under the code alone.
WinnerKey_CodeOnly(concept) == concept.CODE

\* concept.SAB + '|' + concept.CODE
WinnerKey(concept) == concept.SAB \o "|" \o concept.CODE

\* Mutant: the suppress test is missing.
ConceptFilter_NoSuppress(concept) ==
    IF ~IsSource(concept.SAB) THEN "unknown"
    ELSE IF concept.LAT # "ENG" THEN "language"
    ELSE IF ~Includes(umlsSources[concept.SAB].tty, concept.TTY) THEN "termtype"
    ELSE "accepted"

\* Mutant: the language test is missing.
ConceptFilter_NoLanguage(concept) ==
    IF ~IsSource(concept.SAB) THEN "unknown"
    ELSE IF ~Includes(umlsSources[concept.SAB].tty, concept.TTY) THEN "termtype"
    ELSE IF concept.SUPPRESS # "N" THEN "suppressed"
    ELSE "accepted"

\* Mutant: the suppress test comes before the other three.
ConceptFilter_SuppressFirst(concept) ==
    IF concept.SUPPRESS # "N" THEN "suppressed"
    ELSE IF ~IsSource(concept.SAB) THEN "unknown"
    ELSE IF concept.LAT # "ENG" THEN "language"
    ELSE IF ~Includes(umlsSources[concept.SAB].tty, concept.TTY) THEN "termtype"
    ELSE "accepted"

\* The filters of lines 700-713: which branch the row takes.
ConceptFilter(concept) ==
    IF ~IsSource(concept.SAB) THEN "unknown"
    ELSE IF concept.LAT # "ENG" THEN "language"
    ELSE IF ~Includes(umlsSources[concept.SAB].tty, concept.TTY) THEN "termtype"
    ELSE IF concept.SUPPRESS # "N" THEN "suppressed"
    ELSE "accepted"

\* source.tty.indexOf(concept.TTY)
Priority(concept) == IndexOf(umlsSources[concept.SAB].tty, concept.TTY)

\* Mutant: `>` for `>=`, a row of equal priority replaces the incumbent.
LessPreferred_TieReplaces(m, concept) ==
    /\ WinnerKey(concept) \in DOMAIN m
    /\ Priority(concept) > Priority(m[WinnerKey(concept)])

\* Mutant: the comparison is inverted, the less preferred row replaces the incumbent.
LessPreferred_Inverted(m, concept) ==
    /\ WinnerKey(concept) \in DOMAIN m
    /\ Priority(concept) <= Priority(m[WinnerKey(concept)])

\* Lines 716-723: there is an incumbent and the row does not outrank it.
LessPreferred(m, concept) ==
    /\ WinnerKey(concept) \in DOMAIN m
    /\ Priority(concept) >= Priority(m[WinnerKey(concept)])

\* Mutant: the count starts again at one every time.
Increment_Restart(o, k) == Put(o, k, 1)

\* counts[k] = (counts[k] ?? 0) + 1
Increment(o, k) == Put(o, k, (IF Has(o, k) THEN Get(o, k) ELSE 0) + 1)

\* Mutant: the open batch is forgotten, the item starts a new array every time.
Pushed_Fresh(batches, system, item) == <<item>>

\* Mutant: unshift for push, the new item goes to the front of the open batch.
Pushed_Front(batches, system, item) ==
    IF Has(batches, system) THEN <<item>> \o Get(batches, system) ELSE <<item>>

\* Lines 731-736: the array the new item ends up in.
Pushed(batches, system, item) ==
    IF Has(batches, system) THEN Append(Get(batches, system), item) ELSE <<item>>

\* Mutant: a batch is never full, everything waits for the end of the stream.
IsFull_Never(found) == FALSE

\* Mutant: `>` for `>=`, a batch is posted one item late.
IsFull_Late(found) == Len(found) > BatchSize

\* Mutant: a batch is full with its first item.
IsFull_Eager(found) == Len(found) >= 1

\* Lines 738, 948, 1112: the capacity test.
IsFull(found) == Len(found) >= BatchSize

\* One post of CodeSystem/$import as the log of posts records it: `at` tells the
\* flush of the loop body ("capacity") from the flush after the stream ("end").
Posted(system, items, at) ==
    [system |-> system, items |-> items, at |-> at, ack |-> "pending"]

\* The log of posts once the post that is being awaited has settled: resolved
\* ("ok") or rejected with an error.
Acked(log, outcome) == [log EXCEPT ![Len(log)].ack = outcome]

\* The history of the items a pass built for each system.
NoneEmitted == [s \in Systems |-> <<>>]

Emit(e, system, item) == [e EXCEPT ![system] = Append(e[system], item)]

\* What a rejected post throws: an OperationOutcomeError, which has an outcome,
\* or an error of the transport, which has none.
PostErrors == {"OperationOutcomeError", "FetchError"}

\* A line of console.error.
ErrorLine(by, system, error) == [by |-> by, system |-> system, error |-> error]

\* Lines 769-772 and 1167: the catch of sendCodings reads err.outcome.issue while
\* it builds the arguments of console.error, which throws a TypeError in place
\* of err when err has no outcome; main().catch prints what reached it.
SendCodingsCatch(system, err) ==
    IF err = "OperationOutcomeError"
    THEN <<ErrorLine("sendCodings", system, err), ErrorLine("main", "", err)>>
    ELSE <<ErrorLine("main", "", "TypeError")>>

\* The destination's $import of codings: an upsert per (system, code), in order.
RECURSIVE ImportCodings(_, _, _)
ImportCodings(d, system, items) ==
    IF items = <<>> THEN d
    ELSE ImportCodings(Assign(d, <<system, Head(items).code>>, Head(items).display),
                       system, Tail(items))

\* (l, r) => r[1] - l[1]
ByCountDesc(l, r) == r.v - l.v

\* String.prototype.localeCompare on the system URIs of the registry, as a rank.
SystemRank == [s \in Systems |-> IF s = "http://loinc.org" THEN 1 ELSE 2]

LocaleCompare(a, b) == SystemRank[a] - SystemRank[b]

\* A key of the counts of a property pass, `${source.system}|${label}`, kept as
\* its two parts: no system URI holds a '|', so split('|', 1)[0] is the system.
CountKey(system, label) == <<system, label>>

SplitSystem(key) == key[1]

\* Mutant: the systems are not compared, only the counts.
BySystemThenCount_CountOnly(l, r) == r.v - l.v

\* (l, r) => r[0].split('|', 1)[0].localeCompare(l[0].split('|', 1)[0]) || r[1] - l[1]
BySystemThenCount(l, r) ==
    IF LocaleCompare(SplitSystem(r.k), SplitSystem(l.k)) # 0
    THEN LocaleCompare(SplitSystem(r.k), SplitSystem(l.k))
    ELSE r.v - l.v

\* The comparator a pass hands to sort (lines 755, 968-970, 1132-1134).
Compare(pass, l, r) ==
    IF pass = "concepts" THEN ByCountDesc(l, r) ELSE BySystemThenCount(l, r)

\* Object.entries(counts).sort(cmp): Array.prototype.sort is stable.
StableSort(entries, pass) ==
    LET n == Len(entries)
        Before(j, i) == \/ Compare(pass, entries[j], entries[i]) < 0
                        \/ Compare(pass, entries[j], entries[i]) = 0 /\ j < i
        Rank(i) == 1 + Cardinality({j \in 1..n : Before(j, i)})
    IN [p \in 1..n |-> entries[CHOOSE i \in 1..n : Rank(i) = p]]

\* Lines 755-757: the count lines in the order they are printed.
ConceptSummary(cnts) == StableSort(cnts, "concepts")

\* One iteration of the for-await loop of lines 697-745, up to its await: the
\* values the iteration leaves in the variables it can write.
ConceptIteration(line) ==
    LET concept == UmlsConcept(line)
        branch == ConceptFilter(concept)
        same == [pc |-> pc, processed |-> processed, skipped |-> skipped,
                 counts |-> counts, codings |-> codings,
                 mappedConcepts |-> mappedConcepts, inflight |-> inflight, sent |-> sent,
                 emitted |-> emitted]
    IN  IF branch \in {"unknown", "language", "termtype"}
        THEN same
        ELSE IF branch = "suppressed"
        THEN [same EXCEPT !.skipped = skipped + 1]
        ELSE LET source == umlsSources[concept.SAB]
                 m1 == IndexAtom(mappedConcepts, concept)
             IN  IF LessPreferred(m1, concept)
                 THEN [same EXCEPT !.mappedConcepts = m1]
                 ELSE LET coding == [code |-> concept.CODE, display |-> concept.STR]
                          foundCodings == Pushed(codings, source.system, coding)
                          counted == [same EXCEPT
                              !.counts = IF WinnerKey(concept) \in DOMAIN m1
                                         THEN counts
                                         ELSE Increment(counts, source.system),
                              !.mappedConcepts = Assign(m1, WinnerKey(concept), concept),
                              !.emitted = Emit(emitted, source.system, coding)]
                      IN  IF IsFull(foundCodings)
                          THEN \* await sendCodings(foundCodings, source.system);
                               \* push has already changed an array the object holds
                               [counted EXCEPT
                                  !.pc = "send",
                                  !.inflight = <<[system |-> source.system,
                                                  items |-> foundCodings]>>,
                                  !.sent = Append(sent, Posted(source.system,
                                                               foundCodings, "capacity")),
                                  !.codings = IF Has(codings, source.system)
                                              THEN Put(codings, source.system, foundCodings)
                                              ELSE codings]
                          ELSE [counted EXCEPT
                                  !.codings = Put(codings, source.system, foundCodings),
                                  !.processed = processed + 1]

\* Mutant: sendCodings is called without await, the loop reads on while the
\* post is outstanding.
ProcessConceptLine_NoAwait(line) ==
    /\ stage = "concepts" /\ pc \in {"loop", "send"}
    /\ nread' = nread + 1
    /\ LET after == ConceptIteration(line)
       IN  /\ pc' = after.pc
           /\ processed' = after.processed
           /\ skipped' = after.skipped
           /\ counts' = after.counts
           /\ codings' = after.codings
           /\ mappedConcepts' = after.mappedConcepts
           /\ inflight' = after.inflight
           /\ sent' = after.sent
           /\ emitted' = after.emitted
    /\ UNCHANGED <<stage, properties, finalIdx, dest, summary, errlog, mainVars>>

\* The loop body runs on the next line of the stream.
ProcessConceptLine(line) ==
    /\ stage = "concepts" /\ pc = "loop"
    /\ nread' = nread + 1
    /\ LET after == ConceptIteration(line)
       IN  /\ pc' = after.pc
           /\ processed' = after.processed
           /\ skipped' = after.skipped
           /\ counts' = after.counts
           /\ codings' = after.codings
           /\ mappedConcepts' = after.mappedConcepts
           /\ inflight' = after.inflight
           /\ sent' = after.sent
           /\ emitted' = after.emitted
    /\ UNCHANGED <<stage, properties, finalIdx, dest, summary, errlog, mainVars>>

\* The post of line 768 resolves: lines 740 and 744.
ConceptSendOk ==
    /\ stage = "concepts" /\ pc = "send"
    /\ dest' = ImportCodings(dest, inflight[1].system, inflight[1].items)
    /\ codings' = Put(codings, inflight[1].system, <<>>)
    /\ processed' = processed + 1
    /\ pc' = "loop"
    /\ inflight' = <<>>
    /\ sent' = Acked(sent, "ok")
    /\ UNCHANGED <<stage, nread, skipped, counts, properties, mappedConcepts, finalIdx,
                   summary, errlog>>
    /\ UNCHANGED <<emitted, mainVars, harnessVars>>

\* The post rejects: sendCodings logs the system and rethrows (lines 769-772),
\* nothing in processConcepts or main catches, main().catch(console.error).
ConceptSendFail ==
    /\ stage = "concepts" /\ pc \in {"send", "finalSend"}
    /\ \E err \in PostErrors :
           /\ errlog' = errlog \o SendCodingsCatch(inflight[1].system, err)
           /\ sent' = Acked(sent, err)
    /\ stage' = "failed"
    /\ pc' = "rejected"
    /\ inflight' = <<>>
    /\ UNCHANGED <<nread, processed, skipped, counts, codings, properties, mappedConcepts,
                   finalIdx, dest, summary>>
    /\ UNCHANGED <<emitted, mainVars, harnessVars>>

\* The readline stream ends: the loop of line 747 starts.
ConceptEnd ==
    /\ stage = "concepts" /\ pc = "loop"
    /\ pc' = "final"
    /\ finalIdx' = 1
    /\ UNCHANGED <<stage, nread, processed, skipped, counts, codings, properties,
                   mappedConcepts, inflight, sent, dest, summary, errlog>>
    /\ UNCHANGED <<emitted, mainVars, harnessVars>>

\* One iteration of the loop of lines 747-751, or its end and lines 752-759.
ConceptFinal ==
    /\ stage = "concepts" /\ pc = "final"
    /\ IF finalIdx > Len(codings)
       THEN /\ summary' = ConceptSummary(counts)
            /\ stage' = "main"
            /\ pc' = "afterConcepts"
            /\ UNCHANGED <<finalIdx, inflight, sent>>
       ELSE IF Len(codings[finalIdx].v) > 0
       THEN /\ pc' = "finalSend"
            /\ inflight' = <<[system |-> codings[finalIdx].k, items |-> codings[finalIdx].v]>>
            /\ sent' = Append(sent, Posted(codings[finalIdx].k, codings[finalIdx].v, "end"))
            /\ UNCHANGED <<stage, finalIdx, summary>>
       ELSE /\ finalIdx' = finalIdx + 1
            /\ UNCHANGED <<stage, pc, inflight, sent, summary>>
    /\ UNCHANGED <<nread, processed, skipped, counts, codings, properties, mappedConcepts,
                   dest, errlog>>
    /\ UNCHANGED <<emitted, mainVars, harnessVars>>

ConceptFinalSendOk ==
    /\ stage = "concepts" /\ pc = "finalSend"
    /\ dest' = ImportCodings(dest, inflight[1].system, inflight[1].items)
    /\ finalIdx' = finalIdx + 1
    /\ pc' = "final"
    /\ inflight' = <<>>
    /\ sent' = Acked(sent, "ok")
    /\ UNCHANGED <<stage, nread, processed, skipped, counts, codings, properties,
                   mappedConcepts, summary, errlog>>
    /\ UNCHANGED <<emitted, mainVars, harnessVars>>

(***************************************************************************)
(* The concept pass on its own, from the entry of processConcepts.         *)
(***************************************************************************)
EmptyMap == [x \in {} |-> x]

InitLocals ==
    /\ nread = 0 /\ processed = 0 /\ skipped = 0
    /\ counts = <<>> /\ codings = <<>> /\ properties = <<>>
    /\ inflight = <<>> /\ finalIdx = 0 /\ sent = <<>>
    /\ emitted = NoneEmitted

InitConcepts ==
    /\ stage = "concepts" /\ pc = "loop"
    /\ InitLocals
    /\ mappedConcepts = EmptyMap
    /\ dest = EmptyMap
    /\ summary = <<>> /\ errlog = <<>>
    /\ created = <<>> /\ propertyMappings = <<>> /\ relationshipProperties = EmptyMap
    /\ missing = {}
    /\ accepted = {} /\ run = 1 /\ fed = <<>> /\ todo = {} /\ first = <<>>
    /\ ledger = <<>>

\* A row that passes the four filters, in the words of the data model: registry
\* source, language ENG, a term type of the source's list, not suppressed.
AcceptedRow(c) ==
    /\ c.SAB \in DOMAIN umlsSources
    /\ c.LAT = "ENG"
    /\ \E i \in 1..Len(umlsSources[c.SAB].tty) : umlsSources[c.SAB].tty[i] = c.TTY
    /\ c.SUPPRESS = "N"

\* The zero-based position of an accepted row's term type in its source's list.
TermTypeIndex(c) ==
    CHOOSE i \in 0..(Len(umlsSources[c.SAB].tty) - 1) : umlsSources[c.SAB].tty[i + 1] = c.TTY

\* The stream yields one more line.
ConceptLine ==
    \E line \in ConceptLines :
        /\ nread < MaxConceptLines
        /\ ProcessConceptLine(line)
        /\ accepted' = IF AcceptedRow(UmlsConcept(line))
                       THEN accepted \cup {UmlsConcept(line)} ELSE accepted
        /\ UNCHANGED <<run, fed, todo, first, ledger>>

NextConcepts ==
    \/ ConceptLine
    \/ ConceptSendOk
    \/ ConceptSendFail
    \/ ConceptEnd
    \/ ConceptFinal
    \/ ConceptFinalSendOk

SpecConcepts == InitConcepts /\ [][NextConcepts]_vars

(***************************************************************************)
(* Claims about the concept pass.                                          *)
(***************************************************************************)
ConceptRecords == {UmlsConcept(line) : line \in ConceptLines}

WinnerKeys == {WinnerKey(c) : c \in ConceptRecords}

\* The accepted rows seen so far for one (source, code) key.
AcceptedFor(k) == {r \in accepted : WinnerKey(r) = k}

C1_WinnerIsMin ==
    \A r \in accepted :
        LET k == WinnerKey(r) IN
        /\ k \in DOMAIN mappedConcepts
        /\ mappedConcepts[k] \in AcceptedFor(k)
        /\ \A q \in AcceptedFor(k) : TermTypeIndex(mappedConcepts[k]) <= TermTypeIndex(q)

C1_TieKeepsIncumbent ==
    \A k \in WinnerKeys :
        (k \in DOMAIN mappedConcepts /\ mappedConcepts'[k] # mappedConcepts[k])
            => TermTypeIndex(mappedConcepts'[k]) < TermTypeIndex(mappedConcepts[k])

\* C1: after any prefix of the concept stream the record stored under SAB|CODE is
\* an accepted record of that pair whose term-type index is the minimum over the
\* accepted records of the pair seen so far, and the stored record changes only to
\* a record of strictly lower index (an equal or greater index never replaces it).
C1_PreferredTermWins == []C1_WinnerIsMin /\ [][C1_TieKeepsIncumbent]_vars

\* A winner that outranks another accepted row of its pair and has kept its place
\* against a different row of equal index.
C1_Witness ==
    \E k \in WinnerKeys :
        /\ k \in DOMAIN mappedConcepts
        /\ \E q \in AcceptedFor(k) : TermTypeIndex(mappedConcepts[k]) < TermTypeIndex(q)
        /\ \E q \in AcceptedFor(k) : /\ q # mappedConcepts[k]
                                     /\ TermTypeIndex(q) = TermTypeIndex(mappedConcepts[k])

\* The pass has returned to main: every post it issued has resolved.
ConceptsReturned == stage = "main" /\ pc = "afterConcepts"

NoSuppressedInIndex ==
    \A k \in DOMAIN mappedConcepts : mappedConcepts[k].SUPPRESS = "N"

\* The pass is between two lines: the loop body may run next.
AtConceptLoop == stage = "concepts" /\ pc = "loop"

\* A suppressed row leaves the index, the batches and the posts alone.
SuppressedRowInert(line) ==
    LET after == ConceptIteration(line) IN
    /\ after.mappedConcepts = mappedConcepts
    /\ after.codings = codings /\ after.sent = sent /\ after.inflight = inflight

\* C3 as stated: every row whose SUPPRESS flag is not 'N' stays out of the
\* AtomIndex and of the batches and adds exactly one to skipped.
C3_SuppressedCountsOnce ==
    /\ NoSuppressedInIndex
    /\ AtConceptLoop =>
          \A line \in ConceptLines :
              UmlsConcept(line).SUPPRESS # "N" =>
                  /\ SuppressedRowInert(line)
                  /\ ConceptIteration(line).skipped = skipped + 1

\* C3 (amended): a row whose SUPPRESS flag is not 'N' is never stored in the
\* AtomIndex, under its atom id or as a winner, adds no coding to any batch, and
\* adds exactly one to skipped when its source is in the registry, its language is
\* ENG and its term type is accepted; otherwise it leaves skipped unchanged.
C3_SuppressedExcluded ==
    /\ NoSuppressedInIndex
    /\ AtConceptLoop =>
          \A line \in ConceptLines :
              LET c == UmlsConcept(line) IN
              c.SUPPRESS # "N" =>
                  /\ SuppressedRowInert(line)
                  /\ ConceptIteration(line).skipped = skipped +
                        (IF /\ c.SAB \in DOMAIN umlsSources
                            /\ c.LAT = "ENG"
                            /\ \E i \in 1..Len(umlsSources[c.SAB].tty) :
                                   umlsSources[c.SAB].tty[i] = c.TTY
                         THEN 1 ELSE 0)

\* A suppressed row has been counted and an accepted row has been indexed.
C3_Witness == skipped >= 1 /\ mappedConcepts # EmptyMap /\ NoSuppressedInIndex

\* The codings the pass has posted for one system, in post order.
RECURSIVE SentItems(_, _)
SentItems(log, system) ==
    IF log = <<>> THEN <<>>
    ELSE (IF Head(log).system = system THEN Head(log).items ELSE <<>>)
         \o SentItems(Tail(log), system)

\* The display of the last posted coding of a code.
LastDisplay(items, code) ==
    items[CHOOSE i \in 1..Len(items) :
            /\ items[i].code = code
            /\ \A j \in (i + 1)..Len(items) : items[j].code # code].display

\* Two accepted rows that are all the pass saw of one (source, code): index 2 and 0.
ScenarioRows(a, b) ==
    /\ a \in accepted /\ b \in accepted
    /\ WinnerKey(a) = WinnerKey(b)
    /\ TermTypeIndex(a) = 2 /\ TermTypeIndex(b) = 0
    /\ AcceptedFor(WinnerKey(a)) = {a, b}

\* C7: when the pass has seen exactly two accepted rows of one source and code,
\* A of term-type index 2 and B of index 0, in either order, the last coding
\* posted for that code carries B's display, and the system's count is one per
\* distinct accepted code of the source (the code is counted once).
C7_EndToEnd ==
    ConceptsReturned =>
        \A a \in accepted, b \in accepted :
            ScenarioRows(a, b) =>
                LET system == umlsSources[a.SAB].system IN
                /\ \E i \in 1..Len(SentItems(sent, system)) :
                       SentItems(sent, system)[i].code = a.CODE
                /\ LastDisplay(SentItems(sent, system), a.CODE) = b.STR
                /\ Get(counts, system) =
                       Cardinality({r.CODE : r \in {q \in accepted : q.SAB = a.SAB}})

\* The scenario with A arriving first: A's display was posted, then B's.
C7_Witness ==
    /\ ConceptsReturned
    /\ \E a \in accepted, b \in accepted :
          /\ ScenarioRows(a, b)
          /\ \E i \in 1..Len(SentItems(sent, umlsSources[a.SAB].system)) :
                SentItems(sent, umlsSources[a.SAB].system)[i] =
                    [code |-> a.CODE, display |-> a.STR]

\* C8: once processConcepts has returned (no post was rejected), the destination's
\* display of every accepted (source, code) is the display of the pair's winner
\* in the AtomIndex.
C8_DestinationConverges ==
    ConceptsReturned =>
        \A r \in accepted :
            LET key == <<umlsSources[r.SAB].system, r.CODE>> IN
            /\ key \in DOMAIN dest
            /\ dest[key] = mappedConcepts[WinnerKey(r)].STR

\* A less preferred display of a code went out in an earlier batch than the
\* winner's display.
C8_Witness ==
    /\ ConceptsReturned
    /\ \E i \in 1..Len(sent), j \in 1..Len(sent) :
          /\ i < j /\ sent[i].system = sent[j].system
          /\ \E x \in 1..Len(sent[i].items), y \in 1..Len(sent[j].items) :
                /\ sent[i].items[x].code = sent[j].items[y].code
                /\ sent[i].items[x].display # sent[j].items[y].display

C9_Rejected(c) ==
    \/ c.SAB \notin DOMAIN umlsSources
    \/ c.LAT # "ENG"
    \/ \A i \in 1..Len(umlsSources[c.SAB].tty) : umlsSources[c.SAB].tty[i] # c.TTY
    \/ c.SUPPRESS # "N"

\* C9: a row of an unknown source, of a language other than ENG, of a term type
\* the source does not accept, or suppressed, leaves the AtomIndex, every open
\* batch, the counts and processed unchanged, and skipped changes only when the
\* row is suppressed.
C9_RejectedRowFrame ==
    AtConceptLoop =>
        \A line \in ConceptLines :
            LET c == UmlsConcept(line)
                after == ConceptIteration(line)
            IN  C9_Rejected(c) =>
                    /\ after.mappedConcepts = mappedConcepts
                    /\ after.codings = codings /\ after.inflight = inflight
                    /\ after.sent = sent /\ after.pc = pc
                    /\ after.counts = counts
                    /\ after.processed = processed
                    /\ (after.skipped # skipped => c.SUPPRESS # "N")

\* Two rows were consumed, one of them counted as skipped, and nothing else moved.
C9_Witness ==
    /\ nread = 2 /\ skipped = 1 /\ processed = 0
    /\ mappedConcepts = EmptyMap /\ codings = <<>> /\ counts = <<>>

(***************************************************************************)
(* The concept pass run twice: on a file, then on a permutation of it.     *)
(***************************************************************************)
\* The longest file of the two-run harness.
MaxPermLines == 3

PermLines ==
    { ConceptRow("ENG", aui, "SNOMEDCT_US", tty, "100", AtomStr[aui], "N") :
        aui \in {"A1", "A2"}, tty \in {"FN", "SY"} } \cup
    { ConceptRow("ENG", aui, "LNC", "LN", "100", AtomStr[aui], "N") : aui \in {"A1", "A2"} }

\* The first run reads one more line of its file.
PermFirstLine ==
    \E line \in PermLines :
        /\ run = 1 /\ Len(fed) < MaxPermLines
        /\ ProcessConceptLine(line)
        /\ fed' = Append(fed, line)
        /\ accepted' = IF AcceptedRow(UmlsConcept(line))
                       THEN accepted \cup {UmlsConcept(line)} ELSE accepted
        /\ UNCHANGED <<run, todo, first, ledger>>

\* The second run reads one of the lines the first file held, in any order.
PermSecondLine ==
    \E i \in todo :
        /\ run = 2
        /\ ProcessConceptLine(first[1].file[i])
        /\ fed' = Append(fed, first[1].file[i])
        /\ todo' = todo \ {i}
        /\ accepted' = IF AcceptedRow(UmlsConcept(first[1].file[i]))
                       THEN accepted \cup {UmlsConcept(first[1].file[i])} ELSE accepted
        /\ UNCHANGED <<run, first, ledger>>

\* The stream ends when the file is exhausted.
PermEnd ==
    /\ run = 2 => todo = {}
    /\ ConceptEnd

\* The process is started again: processConcepts begins with fresh locals
\* (lines 691-695); the destination keeps what it was sent.
Restart ==
    /\ run = 1 /\ stage = "main" /\ pc = "afterConcepts"
    /\ first' = <<[file |-> fed, mapped |-> mappedConcepts, summary |-> summary]>>
    /\ run' = 2
    /\ todo' = 1..Len(fed)
    /\ fed' = <<>>
    /\ accepted' = {}
    /\ stage' = "concepts" /\ pc' = "loop"
    /\ nread' = 0 /\ processed' = 0 /\ skipped' = 0
    /\ counts' = <<>> /\ codings' = <<>>
    /\ finalIdx' = 0 /\ sent' = <<>>
    /\ mappedConcepts' = EmptyMap
    /\ summary' = <<>>
    /\ emitted' = NoneEmitted
    /\ UNCHANGED <<properties, inflight, dest, errlog, mainVars, ledger>>

NextPerm ==
    \/ PermFirstLine
    \/ PermSecondLine
    \/ PermEnd
    \/ ConceptSendOk
    \/ ConceptFinal
    \/ ConceptFinalSendOk
    \/ Restart

SpecPerm == InitConcepts /\ [][NextPerm]_vars

\* Both runs have returned.
BothReturned == run = 2 /\ stage = "main" /\ pc = "afterConcepts"

\* The (source, code) keys of either run's index.
PermKeys(m) == WinnerKeys \cap DOMAIN m

\* C2 as stated: any permutation of the file ends with the same winning record,
\* hence the same display, for every (source, code).
C2_SameWinner ==
    BothReturned =>
        /\ PermKeys(mappedConcepts) = PermKeys(first[1].mapped)
        /\ \A k \in PermKeys(mappedConcepts) : mappedConcepts[k] = first[1].mapped[k]

\* The accepted rows of the pair that have the pair's least term-type index.
MostPreferred(k) ==
    {r \in AcceptedFor(k) : \A q \in AcceptedFor(k) : TermTypeIndex(r) <= TermTypeIndex(q)}

\* C2 (amended): any permutation of the file ends, for every (source, code), with
\* a winner of the same term-type index, the least among the pair's accepted
\* rows; the winning record and its display are the same whenever only one
\* accepted row of the pair has that index (among several it is the first read).
C2_SameWinnerUpToTies ==
    BothReturned =>
        /\ PermKeys(mappedConcepts) = PermKeys(first[1].mapped)
        /\ \A k \in PermKeys(mappedConcepts) :
              /\ TermTypeIndex(mappedConcepts[k]) = TermTypeIndex(first[1].mapped[k])
              /\ mappedConcepts[k] \in MostPreferred(k)
              /\ first[1].mapped[k] \in MostPreferred(k)
              /\ Cardinality(MostPreferred(k)) = 1 =>
                     mappedConcepts[k] = first[1].mapped[k]

\* The second run read the file in another order, a less preferred row first in
\* one run and last in the other, and both ended with the same winner.
C2_Witness ==
    /\ BothReturned
    /\ fed # first[1].file
    /\ \E k \in PermKeys(mappedConcepts) :
          /\ Cardinality(AcceptedFor(k)) >= 2
          /\ Cardinality(MostPreferred(k)) = 1
          /\ mappedConcepts[k] = first[1].mapped[k]
          /\ UmlsConcept(fed[1]) = mappedConcepts[k]
          /\ UmlsConcept(first[1].file[1]) # mappedConcepts[k]
          /\ WinnerKey(UmlsConcept(first[1].file[1])) = k
          /\ AcceptedRow(UmlsConcept(first[1].file[1]))

\* C6: two runs on permutations of one file print the same count lines in the
\* same order.
C6_SummaryOrderIndependent ==
    BothReturned => summary = first[1].summary

(***************************************************************************)
(* The property vocabularies.  source.resource.property comes from         *)
(* ./codesystems, which is not part of the sources at hand: each source    *)
(* has a parent and a child property, told by their uri, and LOINC has     *)
(* the properties the alias table of lines 884-904 names.                  *)
(***************************************************************************)
PARENT_PROPERTY == "http://hl7.org/fhir/concept-properties#parent"
CHILD_PROPERTY == "http://hl7.org/fhir/concept-properties#child"

resourceProperty ==
    [SNOMEDCT_US |-> <<[code |-> "parent", uri |-> PARENT_PROPERTY],
                       [code |-> "child", uri |-> CHILD_PROPERTY]>>,
     LNC |-> <<[code |-> "parent", uri |-> PARENT_PROPERTY],
               [code |-> "child", uri |-> CHILD_PROPERTY],
               [code |-> "COMPONENT", uri |-> Undefined],
               [code |-> "CLASS", uri |-> Undefined]>>]

\* mappedProperties, restricted to two of its entries.
mappedProperties == [LOINC_COMPONENT |-> "COMPONENT", LCL |-> "CLASS"]

\* mappedProperties[atn]
Alias(atn) == IF atn \in DOMAIN mappedProperties THEN mappedProperties[atn] ELSE Undefined

\* A value an `if` takes for true: neither undefined nor the empty string.
Truthy(x) == x # Undefined /\ x # ""

\* Array.prototype.find, given for each element whether it satisfies the test:
\* the first element that does, or none.
Find(arr, hits) ==
    IF \E i \in 1..Len(arr) : hits[i]
    THEN <<arr[CHOOSE i \in 1..Len(arr) : hits[i] /\ \A j \in 1..(i - 1) : ~hits[j]]>>
    ELSE <<>>

(***************************************************************************)
(* processProperties, lines 912-973, and sendProperties, lines 1139-1158.  *)
(***************************************************************************)
UmlsAttribute(cols) ==
    [CODE |-> Col(cols, 6), ATN |-> Col(cols, 9), SAB |-> Col(cols, 10),
     ATV |-> Col(cols, 11), SUPPRESS |-> Col(cols, 12)]

\* A well-formed MRSAT.RRF row, split; the columns the code never reads are fixed.
AttributeRow(code, atn, sab, atv, suppress) ==
    <<"C0000001", "L0000001", "S0000001", "A1", "CODE", code, "AT1", "", atn, sab,
      atv, suppress>>

\* Mutant: the alias table is not consulted.
FindAttributeProperty_NoAlias(attr) ==
    LET vocabulary == resourceProperty[attr.SAB]
    IN  Find(vocabulary, [i \in 1..Len(vocabulary) |-> attr.ATN = vocabulary[i].code])

\* Lines 933-935: the property of the source's vocabulary the attribute names.
FindAttributeProperty(attr) ==
    LET vocabulary == resourceProperty[attr.SAB]
    IN  Find(vocabulary, [i \in 1..Len(vocabulary) |->
                            \/ attr.ATN = vocabulary[i].code
                            \/ Alias(attr.ATN) = vocabulary[i].code])

\* What an iteration of a property pass leaves when it changes nothing.
PropertySame ==
    [pc |-> pc, processed |-> processed, skipped |-> skipped, counts |-> counts,
     properties |-> properties, inflight |-> inflight, sent |-> sent,
     emitted |-> emitted, warn |-> <<>>, threw |-> ""]

\* Lines 941-957 and 1105-1121: the item joins the batch of its system, and the
\* batch is posted when it is full.  The flush posts properties[system], which
\* push has changed in place if the object holds it and which is undefined if
\* not; key, counts and processed wait for the post.
PropertyAppend(system, prop, key) ==
    LET foundProperties == Pushed(properties, system, prop)
        built == [PropertySame EXCEPT !.emitted = Emit(emitted, system, prop)]
    IN  IF IsFull(foundProperties)
        THEN IF Has(properties, system)
             THEN [built EXCEPT
                     !.pc = "send",
                     !.properties = Put(properties, system, foundProperties),
                     !.inflight = <<[system |-> system, items |-> foundProperties,
                                     key |-> key]>>,
                     !.sent = Append(sent, Posted(system, foundProperties, "capacity"))]
             ELSE \* properties.map of undefined
                  [built EXCEPT !.pc = "rejected", !.threw = "TypeError"]
        ELSE [built EXCEPT
                !.properties = Put(properties, system, foundProperties),
                !.counts = Increment(counts, key),
                !.processed = processed + 1]

\* One iteration of the loop of lines 921-958, up to its await.
AttributeIteration(line) ==
    LET attr == UmlsAttribute(line)
    IN  IF ~IsSource(attr.SAB) THEN PropertySame
        ELSE IF attr.SUPPRESS # "N" THEN [PropertySame EXCEPT !.skipped = skipped + 1]
        ELSE LET source == umlsSources[attr.SAB]
                 property == FindAttributeProperty(attr)
             IN  IF property = <<>> THEN PropertySame
                 ELSE PropertyAppend(source.system,
                                     [code |-> attr.CODE, property |-> property[1].code,
                                      value |-> attr.ATV],
                                     CountKey(source.system, property[1].code))

\* The loop body of a property pass runs on the next line of its stream.
PropertyLoopStep(after) ==
    /\ pc = "loop"
    /\ nread' = nread + 1
    /\ pc' = after.pc
    /\ processed' = after.processed
    /\ skipped' = after.skipped
    /\ counts' = after.counts
    /\ properties' = after.properties
    /\ inflight' = after.inflight
    /\ sent' = after.sent
    /\ emitted' = after.emitted
    /\ IF after.threw = ""
       THEN /\ errlog' = errlog \o after.warn
            /\ UNCHANGED stage
       ELSE /\ stage' = "failed"
            /\ errlog' = Append(errlog, ErrorLine("main", "", after.threw))
    /\ UNCHANGED <<codings, mappedConcepts, finalIdx, dest, summary, mainVars>>

ProcessAttributeLine(line) ==
    /\ stage = "properties"
    /\ PropertyLoopStep(AttributeIteration(line))

\* Mutant: the row whose item filled the batch is not counted as processed.
PropertySendOk_Uncounted ==
    /\ pc = "send"
    /\ properties' = Put(properties, inflight[1].system, <<>>)
    /\ counts' = Increment(counts, inflight[1].key)
    /\ processed' = processed
    /\ pc' = "loop"
    /\ inflight' = <<>>
    /\ sent' = Acked(sent, "ok")
    /\ UNCHANGED <<stage, nread, skipped, codings, mappedConcepts, finalIdx, dest,
                   summary, errlog, emitted, mainVars, harnessVars>>

\* The post of line 1154 resolves: lines 950, 955-957 and 1114, 1119-1121.
PropertySendOk ==
    /\ pc = "send"
    /\ properties' = Put(properties, inflight[1].system, <<>>)
    /\ counts' = Increment(counts, inflight[1].key)
    /\ processed' = processed + 1
    /\ pc' = "loop"
    /\ inflight' = <<>>
    /\ sent' = Acked(sent, "ok")
    /\ UNCHANGED <<stage, nread, skipped, codings, mappedConcepts, finalIdx, dest,
                   summary, errlog, emitted, mainVars, harnessVars>>

\* Mutant: the rejection of a post of the loop body is caught and logged, and the
\* pass goes on with the next row.
PropertySendFail_Swallowed ==
    /\ pc = "send"
    /\ \E err \in PostErrors :
           /\ errlog' = Append(errlog, ErrorLine("main", "", err))
           /\ sent' = Acked(sent, err)
    /\ properties' = Put(properties, inflight[1].system, <<>>)
    /\ pc' = "loop"
    /\ inflight' = <<>>
    /\ UNCHANGED <<stage, nread, processed, skipped, counts, codings, mappedConcepts,
                   finalIdx, dest, summary, emitted, mainVars, harnessVars>>

\* The post rejects: sendProperties has no catch, main().catch(console.error).
PropertySendFail ==
    /\ pc \in {"send", "finalSend"}
    /\ \E err \in PostErrors :
           /\ errlog' = Append(errlog, ErrorLine("main", "", err))
           /\ sent' = Acked(sent, err)
    /\ stage' = "failed"
    /\ pc' = "rejected"
    /\ inflight' = <<>>
    /\ UNCHANGED <<nread, processed, skipped, counts, codings, properties, mappedConcepts,
                   finalIdx, dest, summary, emitted, mainVars, harnessVars>>

\* The readline stream ends: the loop of lines 960 and 1124 starts.
PropertyEnd ==
    /\ pc = "loop"
    /\ pc' = "final"
    /\ finalIdx' = 1
    /\ UNCHANGED <<stage, nread, processed, skipped, counts, codings, properties,
                   mappedConcepts, inflight, sent, dest, summary, errlog, emitted,
                   mainVars, harnessVars>>

\* Lines 968-972 and 1132-1136: the count lines in the order they are printed.
PropertySummary(cnts) == StableSort(cnts, "properties")

\* One iteration of the loop of lines 960-964 or 1124-1128, or its end and the
\* summary and return that follow.
PropertyFinal(returned) ==
    /\ pc = "final"
    /\ IF finalIdx > Len(properties)
       THEN /\ summary' = PropertySummary(counts)
            /\ stage' = "main"
            /\ pc' = returned
            /\ UNCHANGED <<finalIdx, inflight, sent>>
       ELSE IF Len(properties[finalIdx].v) > 0
       THEN /\ pc' = "finalSend"
            /\ inflight' = <<[system |-> properties[finalIdx].k,
                              items |-> properties[finalIdx].v]>>
            /\ sent' = Append(sent, Posted(properties[finalIdx].k,
                                           properties[finalIdx].v, "end"))
            /\ UNCHANGED <<stage, finalIdx, summary>>
       ELSE /\ finalIdx' = finalIdx + 1
            /\ UNCHANGED <<stage, pc, inflight, sent, summary>>
    /\ UNCHANGED <<nread, processed, skipped, counts, codings, properties, mappedConcepts,
                   dest, errlog, emitted, mainVars, harnessVars>>

PropertyFinalSendOk ==
    /\ pc = "finalSend"
    /\ finalIdx' = finalIdx + 1
    /\ pc' = "final"
    /\ inflight' = <<>>
    /\ sent' = Acked(sent, "ok")
    /\ UNCHANGED <<stage, nread, processed, skipped, counts, codings, properties,
                   mappedConcepts, dest, summary, errlog, emitted, mainVars,
                   harnessVars>>

AttributeSendOk ==
    /\ stage = "properties"
    /\ PropertySendOk

AttributeSendFail ==
    /\ stage = "properties"
    /\ PropertySendFail

AttributeEnd ==
    /\ stage = "properties"
    /\ PropertyEnd

AttributeFinal ==
    /\ stage = "properties"
    /\ PropertyFinal("afterProperties")

AttributeFinalSendOk ==
    /\ stage = "properties"
    /\ PropertyFinalSendOk

(***************************************************************************)
(* prepareRelationshipProperties, lines 793-818.                           *)
(***************************************************************************)
UmlsDoc(cols) ==
    [DOCKEY |-> Col(cols, 1), VALUE |-> Col(cols, 2), TYPE |-> Col(cols, 3),
     EXPL |-> Col(cols, 4)]

\* Mutant: the new object is built without the spread of the old one.
Spread_Dropped(pm, value) == [rel |-> Undefined, rela |-> Undefined]

\* propertyMappings[doc.VALUE], spread into a new object: absent gives no fields.
Spread(pm, value) ==
    IF Has(pm, value) THEN Get(pm, value) ELSE [rel |-> Undefined, rela |-> Undefined]

\* Lines 805-810: the object after the row.
DocIteration(pm, line) ==
    LET doc == UmlsDoc(line)
    IN  IF doc.DOCKEY = "REL" /\ doc.TYPE = "snomedct_rel_mapping"
        THEN Put(pm, doc.VALUE, [Spread(pm, doc.VALUE) EXCEPT !.rel = doc.EXPL])
        ELSE IF doc.DOCKEY = "RELA" /\ doc.TYPE = "snomedct_rela_mapping"
        THEN Put(pm, doc.VALUE, [Spread(pm, doc.VALUE) EXCEPT !.rela = doc.EXPL])
        ELSE pm

\* x ?? ''
OrEmpty(x) == IF x = Undefined THEN "" ELSE x

\* Mutant: the keys are built for LNC.
MappingKey_Loinc(m) == "LNC/" \o OrEmpty(m.rel) \o "/" \o OrEmpty(m.rela)

\* `SNOMEDCT_US/${rel ?? ''}/${rela ?? ''}`
MappingKey(m) == "SNOMEDCT_US/" \o OrEmpty(m.rel) \o "/" \o OrEmpty(m.rela)

\* Object.fromEntries of lines 812-817: a later entry replaces an earlier one
\* of the same key.
RECURSIVE FromMappings(_, _)
FromMappings(acc, pm) ==
    IF pm = <<>> THEN acc
    ELSE FromMappings(Assign(acc, MappingKey(Head(pm).v), Head(pm).k), Tail(pm))

ProcessDocLine(line) ==
    /\ stage = "prepare" /\ pc = "loop"
    /\ nread' = nread + 1
    /\ propertyMappings' = DocIteration(propertyMappings, line)
    /\ UNCHANGED <<stage, pc, processed, skipped, counts, codings, properties,
                   mappedConcepts, inflight, finalIdx, sent, dest, summary, errlog,
                   emitted, created, relationshipProperties, missing>>

\* The stream ends and the function returns the map to main (line 580).
PrepareEnd ==
    /\ stage = "prepare" /\ pc = "loop"
    /\ relationshipProperties' = FromMappings(EmptyMap, propertyMappings)
    /\ stage' = "main"
    /\ pc' = "afterPrepare"
    /\ UNCHANGED <<nread, processed, skipped, counts, codings, properties, mappedConcepts,
                   inflight, finalIdx, sent, dest, summary, errlog, emitted, created,
                   propertyMappings, missing, harnessVars>>

(***************************************************************************)
(* processRelationships, lines 1054-1137.                                  *)
(***************************************************************************)
UmlsRelationship(cols) ==
    [AUI1 |-> Col(cols, 2), REL |-> Col(cols, 4), AUI2 |-> Col(cols, 6),
     RELA |-> Col(cols, 8), SAB |-> Col(cols, 11), SUPPRESS |-> Col(cols, 15)]

\* A well-formed MRREL.RRF row, split; the columns the code never reads are fixed.
RelationshipRow(aui1, rel, aui2, rela, sab, suppress) ==
    <<"C0000001", aui1, "AUI", rel, "C0000002", aui2, "AUI", rela, "R1", "", sab, sab,
      "", "", suppress>>

\* source.resource.property?.find((p) => p.uri === uri)?.code ?? ''
CodeByUri(sab, uri) ==
    LET vocabulary == resourceProperty[sab]
        found == Find(vocabulary, [i \in 1..Len(vocabulary) |-> vocabulary[i].uri = uri])
    IN  IF found = <<>> THEN "" ELSE found[1].code

\* Mutant: the labels PAR and CHD are tested before the derived map is consulted.
PropertyName_LabelFirst(rel) ==
    LET key == rel.SAB \o "/" \o rel.REL \o "/" \o rel.RELA
        mappedPropertyName == IF key \in DOMAIN relationshipProperties
                              THEN relationshipProperties[key] ELSE Undefined
    IN  IF rel.REL = "PAR" THEN CodeByUri(rel.SAB, PARENT_PROPERTY)
        ELSE IF rel.REL = "CHD" THEN CodeByUri(rel.SAB, CHILD_PROPERTY)
        ELSE IF Truthy(mappedPropertyName) THEN mappedPropertyName
        ELSE Undefined

\* Lines 1077-1085: the property the row is filed under, if any.
PropertyName(rel) ==
    LET key == rel.SAB \o "/" \o rel.REL \o "/" \o rel.RELA
        mappedPropertyName == IF key \in DOMAIN relationshipProperties
                              THEN relationshipProperties[key] ELSE Undefined
    IN  IF Truthy(mappedPropertyName) THEN mappedPropertyName
        ELSE IF rel.REL = "PAR" THEN CodeByUri(rel.SAB, PARENT_PROPERTY)
        ELSE IF rel.REL = "CHD" THEN CodeByUri(rel.SAB, CHILD_PROPERTY)
        ELSE Undefined

\* Mutant: the two endpoints are looked up the other way round.
MappedCode_Swapped(rel, side) ==
    LET aui == IF side = 1 THEN rel.AUI2 ELSE rel.AUI1
    IN  IF aui \in DOMAIN mappedConcepts THEN mappedConcepts[aui].CODE ELSE Undefined

\* mappedCodes[rel.AUI1]?.CODE and mappedCodes[rel.AUI2]?.CODE
MappedCode(rel, side) ==
    LET aui == IF side = 1 THEN rel.AUI1 ELSE rel.AUI2
    IN  IF aui \in DOMAIN mappedConcepts THEN mappedConcepts[aui].CODE ELSE Undefined

\* Mutant: only the first endpoint is tested.
Unresolved_FirstOnly(code, value) == ~Truthy(code)

\* Line 1093: !code || !value
Unresolved(code, value) == ~Truthy(code) \/ ~Truthy(value)

\* Mutant: the warning names the other endpoint.
MissingAtom_Swapped(rel, code) == IF Truthy(code) THEN rel.AUI1 ELSE rel.AUI2

\* Line 1098: code ? rel.AUI2 : rel.AUI1
MissingAtom(rel, code) == IF Truthy(code) THEN rel.AUI2 ELSE rel.AUI1

\* Mutant: the endpoints are resolved before the property is looked up.
RelationshipIteration_EndpointsFirst(line) ==
    LET rel == UmlsRelationship(line)
    IN  IF ~IsSource(rel.SAB) THEN PropertySame
        ELSE IF rel.SUPPRESS # "N" THEN [PropertySame EXCEPT !.skipped = skipped + 1]
        ELSE LET source == umlsSources[rel.SAB]
                 propertyName == PropertyName(rel)
                 code == MappedCode(rel, 1)
                 value == MappedCode(rel, 2)
             IN  IF Unresolved(code, value)
                 THEN [PropertySame EXCEPT
                         !.skipped = skipped + 1,
                         !.warn = <<[by |-> "processRelationships",
                                     name |-> propertyName,
                                     label |-> rel.REL \o "/" \o rel.RELA,
                                     atom |-> MissingAtom(rel, code)]>>]
                 ELSE IF ~Truthy(propertyName) THEN PropertySame
                 ELSE PropertyAppend(source.system,
                                     [code |-> code, property |-> propertyName,
                                      value |-> value],
                                     CountKey(source.system,
                                              propertyName \o " (" \o rel.REL \o "/"
                                                  \o rel.RELA \o ")"))

\* Mutant: the item goes to the system of the source of the first atom.
RelationshipIteration_AtomSystem(line) ==
    LET rel == UmlsRelationship(line)
    IN  IF ~IsSource(rel.SAB) THEN PropertySame
        ELSE IF rel.SUPPRESS # "N" THEN [PropertySame EXCEPT !.skipped = skipped + 1]
        ELSE LET propertyName == PropertyName(rel)
                 code == MappedCode(rel, 1)
                 value == MappedCode(rel, 2)
             IN  IF ~Truthy(propertyName) THEN PropertySame
                 ELSE IF Unresolved(code, value)
                 THEN [PropertySame EXCEPT
                         !.skipped = skipped + 1,
                         !.warn = <<[by |-> "processRelationships",
                                     name |-> propertyName,
                                     label |-> rel.REL \o "/" \o rel.RELA,
                                     atom |-> MissingAtom(rel, code)]>>]
                 ELSE LET source == umlsSources[mappedConcepts[rel.AUI1].SAB]
                      IN  PropertyAppend(source.system,
                                         [code |-> code, property |-> propertyName,
                                          value |-> value],
                                         CountKey(source.system,
                                                  propertyName \o " (" \o rel.REL \o "/"
                                                      \o rel.RELA \o ")"))

\* One iteration of the loop of lines 1066-1122, up to its await.
RelationshipIteration(line) ==
    LET rel == UmlsRelationship(line)
    IN  IF ~IsSource(rel.SAB) THEN PropertySame
        ELSE IF rel.SUPPRESS # "N" THEN [PropertySame EXCEPT !.skipped = skipped + 1]
        ELSE LET source == umlsSources[rel.SAB]
                 propertyName == PropertyName(rel)
                 code == MappedCode(rel, 1)
                 value == MappedCode(rel, 2)
             IN  IF ~Truthy(propertyName) THEN PropertySame
                 ELSE IF Unresolved(code, value)
                 THEN [PropertySame EXCEPT
                         !.skipped = skipped + 1,
                         !.warn = <<[by |-> "processRelationships",
                                     name |-> propertyName,
                                     label |-> rel.REL \o "/" \o rel.RELA,
                                     atom |-> MissingAtom(rel, code)]>>]
                 ELSE PropertyAppend(source.system,
                                     [code |-> code, property |-> propertyName,
                                      value |-> value],
                                     CountKey(source.system,
                                              propertyName \o " (" \o rel.REL \o "/"
                                                  \o rel.RELA \o ")"))

ProcessRelationshipLine(line) ==
    /\ stage = "relationships"
    /\ PropertyLoopStep(RelationshipIteration(line))

RelationshipSendOk ==
    /\ stage = "relationships"
    /\ PropertySendOk

RelationshipSendFail ==
    /\ stage = "relationships"
    /\ PropertySendFail

RelationshipEnd ==
    /\ stage = "relationships"
    /\ PropertyEnd

RelationshipFinal ==
    /\ stage = "relationships"
    /\ PropertyFinal("afterRelationships")

RelationshipFinalSendOk ==
    /\ stage = "relationships"
    /\ PropertyFinalSendOk

(***************************************************************************)
(* main, lines 573-582 and 1164-1168, and addSources, lines 681-685.       *)
(***************************************************************************)
\* Object.values(umlsSources) in the order of the literal.
SourceOrder == <<"SNOMEDCT_US", "LNC">>

\* The start of main, whatever files exist.
InitRun ==
    /\ stage = "addSources" /\ pc = "create"
    /\ InitLocals
    /\ mappedConcepts = EmptyMap
    /\ dest = EmptyMap
    /\ summary = <<>> /\ errlog = <<>>
    /\ created = <<>> /\ propertyMappings = <<>> /\ relationshipProperties = EmptyMap
    /\ accepted = {} /\ run = 1 /\ fed = <<>> /\ todo = {} /\ first = <<>>
    /\ ledger = <<>>

\* The start of main with the four input files in place.
InitMain ==
    /\ InitRun
    /\ missing = {}

\* The files the passes open, by the pass that opens them (lines 688, 913, 794,
\* 1058).
PassFile ==
    [concepts |-> "MRCONSO.RRF", properties |-> "MRSAT.RRF", prepare |-> "MRDOC.RRF",
     relationships |-> "MRREL.RRF"]

mainFrame == <<mappedConcepts, dest, errlog, accepted, run, fed, todo, first>>

\* Per system, how many items the pass that has returned built and how many
\* batches it posted.
Tally ==
    [s \in Systems |-> [items |-> Len(emitted[s]),
                        batches |-> Cardinality({i \in 1..Len(sent) : sent[i].system = s})]]

\* client.createResourceIfNoneExist resolves for the next source.
AddSource ==
    /\ stage = "addSources" /\ Len(created) < Len(SourceOrder)
    /\ created' = Append(created, umlsSources[SourceOrder[Len(created) + 1]].system)
    /\ UNCHANGED <<stage, pc, nread, processed, skipped, counts, codings, properties,
                   inflight, finalIdx, sent, summary, emitted, propertyMappings,
                   relationshipProperties, missing, mainFrame, ledger>>

\* It rejects: main().catch(console.error).
AddSourceFail ==
    /\ stage = "addSources" /\ Len(created) < Len(SourceOrder)
    /\ \E err \in PostErrors : errlog' = Append(errlog, ErrorLine("main", "", err))
    /\ stage' = "failed"
    /\ pc' = "rejected"
    /\ UNCHANGED <<nread, processed, skipped, counts, codings, properties, inflight,
                   finalIdx, sent, summary, emitted, mainVars, mappedConcepts, dest,
                   harnessVars>>

\* The pass is called, its stream opens (createReadStream of lines 688, 913, 794,
\* 1058) and its locals are declared; what the last pass held is out of scope.
EnterPass(pass) ==
    /\ PassFile[pass] \notin missing
    /\ stage' = pass /\ pc' = "loop"
    /\ nread' = 0 /\ processed' = 0 /\ skipped' = 0
    /\ counts' = <<>> /\ codings' = <<>> /\ properties' = <<>>
    /\ inflight' = <<>> /\ finalIdx' = 0 /\ sent' = <<>>
    /\ emitted' = NoneEmitted
    /\ summary' = <<>>

\* Mutant: processConcepts is called without awaiting addSources.
EnterConcepts_Early ==
    /\ stage = "addSources"
    /\ EnterPass("concepts")
    /\ UNCHANGED <<mainVars, mainFrame, ledger>>

\* Line 576.
EnterConcepts ==
    /\ stage = "addSources" /\ Len(created) = Len(SourceOrder)
    /\ EnterPass("concepts")
    /\ UNCHANGED <<mainVars, mainFrame, ledger>>

\* Line 578.
EnterProperties ==
    /\ stage = "main" /\ pc = "afterConcepts"
    /\ EnterPass("properties")
    /\ ledger' = Append(ledger, Tally)
    /\ UNCHANGED <<mainVars, mainFrame>>

\* Line 580.
EnterPrepare ==
    /\ stage = "main" /\ pc = "afterProperties"
    /\ EnterPass("prepare")
    /\ propertyMappings' = <<>>
    /\ ledger' = Append(ledger, Tally)
    /\ UNCHANGED <<created, relationshipProperties, missing, mainFrame>>

\* Mutant: main calls processRelationships before prepareRelationshipProperties.
EnterRelationships_BeforePrepare ==
    /\ stage = "main" /\ pc = "afterProperties"
    /\ EnterPass("relationships")
    /\ UNCHANGED <<mainVars, mainFrame, ledger>>

\* Line 581.
EnterRelationships ==
    /\ stage = "main" /\ pc = "afterPrepare"
    /\ EnterPass("relationships")
    /\ UNCHANGED <<mainVars, mainFrame, ledger>>

\* Line 1166: main has resolved.
Done ==
    /\ stage = "main" /\ pc = "afterRelationships"
    /\ stage' = "done"
    /\ pc' = "done"
    /\ ledger' = Append(ledger, Tally)
    /\ UNCHANGED <<nread, processed, skipped, counts, codings, properties, inflight,
                   finalIdx, sent, summary, emitted, mainVars, mainFrame>>

(***************************************************************************)
(* The whole run, on files of a few rows each.                             *)
(***************************************************************************)
\* The longest file a behaviour of the whole run reads.
MaxRunLines == 4

RunConceptLines ==
    { ConceptRow("ENG", "A1", "SNOMEDCT_US", "SY", "100", AtomStr["A1"], "N"),
      ConceptRow("ENG", "A2", "SNOMEDCT_US", "FN", "100", AtomStr["A2"], "N"),
      ConceptRow("ENG", "A3", "SNOMEDCT_US", "PT", "200", AtomStr["A3"], "N"),
      ConceptRow("ENG", "A4", "LNC", "LN", "300", AtomStr["A4"], "N"),
      ConceptRow("ENG", "A4", "LNC", "LN", "300", AtomStr["A4"], "O") }

RunAttributeLines ==
    { AttributeRow("300", "LOINC_COMPONENT", "LNC", "Glucose", "N"),
      AttributeRow("300", "CLASS", "LNC", "CHEM", "N"),
      AttributeRow("100", "parent", "SNOMEDCT_US", "200", "N"),
      AttributeRow("100", "ACTIVE", "SNOMEDCT_US", "1", "N") }

RunDocLines ==
    { <<"REL", "116680003", "snomedct_rel_mapping", "CHD", "">>,
      <<"RELA", "116680003", "snomedct_rela_mapping", "isa", "">> }

RunRelationshipLines ==
    { RelationshipRow("A1", "CHD", "A3", "isa", "SNOMEDCT_US", "N"),
      RelationshipRow("A3", "PAR", "A1", "inverse_isa", "SNOMEDCT_US", "N"),
      RelationshipRow("A4", "PAR", "A4", "", "LNC", "N"),
      RelationshipRow("A1", "CHD", "A9", "isa", "SNOMEDCT_US", "N") }

RunConceptLine ==
    \E line \in RunConceptLines :
        /\ nread < MaxRunLines
        /\ ProcessConceptLine(line)
        /\ accepted' = IF AcceptedRow(UmlsConcept(line))
                       THEN accepted \cup {UmlsConcept(line)} ELSE accepted
        /\ UNCHANGED <<run, fed, todo, first, ledger>>

RunAttributeLine ==
    \E line \in RunAttributeLines :
        /\ nread < MaxRunLines
        /\ ProcessAttributeLine(line)
        /\ UNCHANGED harnessVars

RunDocLine ==
    \E line \in RunDocLines :
        /\ nread < MaxRunLines
        /\ ProcessDocLine(line)
        /\ UNCHANGED harnessVars

RunRelationshipLine ==
    \E line \in RunRelationshipLines :
        /\ nread < MaxRunLines
        /\ ProcessRelationshipLine(line)
        /\ UNCHANGED harnessVars

Next ==
    \/ AddSource
    \/ AddSourceFail
    \/ EnterConcepts
    \/ RunConceptLine
    \/ ConceptSendOk
    \/ ConceptSendFail
    \/ ConceptEnd
    \/ ConceptFinal
    \/ ConceptFinalSendOk
    \/ EnterProperties
    \/ RunAttributeLine
    \/ AttributeSendOk
    \/ AttributeSendFail
    \/ AttributeEnd
    \/ AttributeFinal
    \/ AttributeFinalSendOk
    \/ EnterPrepare
    \/ RunDocLine
    \/ PrepareEnd
    \/ EnterRelationships
    \/ RunRelationshipLine
    \/ RelationshipSendOk
    \/ RelationshipSendFail
    \/ RelationshipEnd
    \/ RelationshipFinal
    \/ RelationshipFinalSendOk
    \/ Done

Spec == InitMain /\ [][Next]_vars

(***************************************************************************)
(* Claims about the batches of the three passes.                           *)
(***************************************************************************)
PassReturned ==
    stage = "main" /\ pc \in {"afterConcepts", "afterProperties", "afterRelationships"}

AtPassLoop == stage \in {"concepts", "properties", "relationships"} /\ pc = "loop"

BatchesOf(system) == {i \in 1..Len(sent) : sent[i].system = system}

CeilDiv(n, d) == (n + d - 1) \div d

\* C4: when a pass has returned, which it does only if none of its posts was
\* rejected, and it built N items for a system, it has posted ceil(N / BatchSize)
\* batches for that system and their lengths add up to N.
C4_BatchCount ==
    PassReturned =>
        \A s \in Systems :
            /\ Cardinality(BatchesOf(s)) = CeilDiv(Len(emitted[s]), BatchSize)
            /\ Len(SentItems(sent, s)) = Len(emitted[s])

\* The run is done and each of the three passes built BatchSize + 1 items for
\* some system and posted them in two batches.
C4_Witness ==
    /\ stage = "done"
    /\ Len(ledger) = 3
    /\ \A p \in 1..3 : \E s \in Systems :
           ledger[p][s] = [items |-> BatchSize + 1, batches |-> 2]

OpenBatches == {codings[i].v : i \in 1..Len(codings)} \cup
               {properties[i].v : i \in 1..Len(properties)}

\* C10: a batch posted by the loop body holds exactly BatchSize items; no posted
\* batch holds more than BatchSize items or none; when a pass is about to read
\* the next row every open batch holds fewer than BatchSize items; after the
\* stream a system gets at most one batch, of 1..BatchSize - 1 items.
C10_BatchBounds ==
    /\ \A i \in 1..Len(sent) :
          /\ sent[i].at = "capacity" => Len(sent[i].items) = BatchSize
          /\ Len(sent[i].items) \in 1..BatchSize
          /\ sent[i].at = "end" => Len(sent[i].items) \in 1..(BatchSize - 1)
    /\ AtPassLoop => \A b \in OpenBatches : Len(b) < BatchSize
    /\ \A s \in Systems : Cardinality({i \in BatchesOf(s) : sent[i].at = "end"}) <= 1

\* The property pass has returned after a full batch and a partial batch for one
\* system and a partial batch for the other.
C10_Witness ==
    /\ stage = "main" /\ pc = "afterProperties"
    /\ Len(sent) = 3
    /\ \E i, j, k \in 1..3 :
          /\ sent[i].at = "capacity" /\ sent[j].at = "end" /\ sent[k].at = "end"
          /\ sent[i].system = sent[j].system /\ sent[k].system # sent[j].system

(***************************************************************************)
(* The whole run on an empty attribute file and relationship rows of every *)
(* kind: the endpoints are atoms the concept pass indexed, an atom it      *)
(* indexed with an empty code, and an atom it never saw.                   *)
(***************************************************************************)
\* The longest file a behaviour of this run reads.
MaxRelLines == 3

RelConceptLines ==
    { ConceptRow("ENG", "A1", "SNOMEDCT_US", "FN", "100", AtomStr["A1"], "N"),
      ConceptRow("ENG", "A2", "SNOMEDCT_US", "FN", "200", AtomStr["A2"], "N"),
      ConceptRow("ENG", "A3", "SNOMEDCT_US", "FN", "", AtomStr["A3"], "N") }

RelLabels == {<<"PAR", "">>, <<"CHD", "isa">>, <<"RO", "">>}

RelLines ==
    { RelationshipRow(aui1, label[1], aui2, label[2], sab, sup) :
        aui1 \in {"A1", "A9"}, label \in RelLabels, aui2 \in {"A2", "A3", "A9"},
        sab \in {"SNOMEDCT_US", "MSH"}, sup \in {"N", "O"} }

RelConceptLine ==
    \E line \in RelConceptLines :
        /\ nread < MaxRelLines
        /\ ProcessConceptLine(line)
        /\ accepted' = IF AcceptedRow(UmlsConcept(line))
                       THEN accepted \cup {UmlsConcept(line)} ELSE accepted
        /\ UNCHANGED <<run, fed, todo, first, ledger>>

RelDocLine ==
    \E line \in RunDocLines :
        /\ nread < MaxRelLines
        /\ ProcessDocLine(line)
        /\ UNCHANGED harnessVars

RelRelationshipLine ==
    \E line \in RelLines :
        /\ nread < MaxRelLines
        /\ ProcessRelationshipLine(line)
        /\ UNCHANGED harnessVars

NextRel ==
    \/ AddSource
    \/ AddSourceFail
    \/ EnterConcepts
    \/ RelConceptLine
    \/ ConceptSendOk
    \/ ConceptSendFail
    \/ ConceptEnd
    \/ ConceptFinal
    \/ ConceptFinalSendOk
    \/ EnterProperties
    \/ AttributeEnd
    \/ AttributeFinal
    \/ EnterPrepare
    \/ RelDocLine
    \/ PrepareEnd
    \/ EnterRelationships
    \/ RelRelationshipLine
    \/ RelationshipSendOk
    \/ RelationshipSendFail
    \/ RelationshipEnd
    \/ RelationshipFinal
    \/ RelationshipFinalSendOk
    \/ Done

SpecRel == InitMain /\ [][NextRel]_vars

(***************************************************************************)
(* Claims about the relationship pass.                                     *)
(***************************************************************************)
AtRelationshipLoop == stage = "relationships" /\ pc = "loop"

InAtomIndex(aui) == aui \in DOMAIN mappedConcepts

\* The items an iteration added to the items the pass has built.
NewItems(after) ==
    UNION {{after.emitted[s][i] : i \in (Len(emitted[s]) + 1)..Len(after.emitted[s])} :
             s \in Systems}

\* C5 as the spec states it: for every row of the relationship file, if both
\* atoms are in the AtomIndex an assertion the row emits has the code of AUI1's
\* record as its code and the code of AUI2's record as its value, and if either
\* atom is absent the row emits nothing and skipped goes up by one.
C5_EndpointsEveryRow ==
    AtRelationshipLoop =>
        \A line \in RelLines :
            LET rel == UmlsRelationship(line)
                after == RelationshipIteration(line)
            IN  /\ InAtomIndex(rel.AUI1) /\ InAtomIndex(rel.AUI2) =>
                      \A item \in NewItems(after) :
                          /\ item.code = mappedConcepts[rel.AUI1].CODE
                          /\ item.value = mappedConcepts[rel.AUI2].CODE
                /\ ~InAtomIndex(rel.AUI1) \/ ~InAtomIndex(rel.AUI2) =>
                      /\ NewItems(after) = {}
                      /\ after.skipped = skipped + 1

\* A row that reaches the lookup of its endpoints: its source is in the registry,
\* it is not suppressed, and the derived map has a non-empty property for
\* SAB/REL/RELA or REL is PAR or CHD.
ReachesEndpoints(rel) ==
    /\ rel.SAB \in DOMAIN umlsSources
    /\ rel.SUPPRESS = "N"
    /\ \/ /\ (rel.SAB \o "/" \o rel.REL \o "/" \o rel.RELA) \in DOMAIN relationshipProperties
          /\ relationshipProperties[rel.SAB \o "/" \o rel.REL \o "/" \o rel.RELA] # ""
       \/ rel.REL \in {"PAR", "CHD"}

\* The atom is in the AtomIndex and its record has a code.
Resolves(aui) == InAtomIndex(aui) /\ mappedConcepts[aui].CODE \notin {"", Undefined}

\* C5, amended: a row that reaches the lookup of its endpoints emits exactly one
\* assertion, to the system of its source, with the code of AUI1's record as
\* code and the code of AUI2's record as value, if both atoms are in the
\* AtomIndex with a code, and leaves skipped alone; if either atom is absent or
\* has no code it emits nothing and skipped goes up by one.  A row that does not
\* reach the lookup emits nothing, and skipped goes up by one if its source is
\* in the registry and it is suppressed and stays as it is if not.
C5_EndpointsOfMappedRows ==
    AtRelationshipLoop =>
        \A line \in RelLines :
            LET rel == UmlsRelationship(line)
                after == RelationshipIteration(line)
            IN  IF ReachesEndpoints(rel)
                THEN IF Resolves(rel.AUI1) /\ Resolves(rel.AUI2)
                     THEN /\ Cardinality(NewItems(after)) = 1
                          /\ \A item \in NewItems(after) :
                                /\ item.code = mappedConcepts[rel.AUI1].CODE
                                /\ item.value = mappedConcepts[rel.AUI2].CODE
                          /\ Len(after.emitted[umlsSources[rel.SAB].system])
                                = Len(emitted[umlsSources[rel.SAB].system]) + 1
                          /\ after.skipped = skipped
                     ELSE /\ NewItems(after) = {}
                          /\ after.skipped = skipped + 1
                ELSE /\ NewItems(after) = {}
                     /\ after.skipped =
                           IF rel.SAB \in DOMAIN umlsSources /\ rel.SUPPRESS # "N"
                           THEN skipped + 1 ELSE skipped

\* The pass has read a row whose atoms both resolve and a row with an atom the
\* concept pass never saw: one assertion from code 100 to code 200, one warning.
C5_Witness ==
    /\ AtRelationshipLoop
    /\ nread = 2 /\ processed = 1 /\ skipped = 1
    /\ \E s \in Systems : \E i \in 1..Len(emitted[s]) :
           emitted[s][i].code = "100" /\ emitted[s][i].value = "200"
    /\ \E i \in 1..Len(errlog) :
           errlog[i].by = "processRelationships" /\ errlog[i].atom = "A9"

(***************************************************************************)
(* Claims about the order of the posts and of the passes.                  *)
(***************************************************************************)
IsPrefix(a, b) == Len(a) <= Len(b) /\ SubSeq(b, 1, Len(a)) = a

\* The batch a pass holds open for a system.
OpenBatch(system) ==
    IF Has(codings, system) THEN Get(codings, system)
    ELSE IF Has(properties, system) THEN Get(properties, system)
    ELSE <<>>

\* C11: for every system the batches a pass has posted, one after the other in
\* the order of the posts, are a prefix of the items the pass built for the
\* system in the order it built them; when the pass is about to read a row what
\* is missing from the posts is the open batch; when the pass has returned
\* nothing is missing.
C11_FifoNoLoss ==
    \A s \in Systems :
        /\ IsPrefix(SentItems(sent, s), emitted[s])
        /\ AtPassLoop => emitted[s] = SentItems(sent, s) \o OpenBatch(s)
        /\ PassReturned => SentItems(sent, s) = emitted[s]

\* The concept pass has returned after three codings for one system, posted in
\* two batches, and one coding for the other system.
C11_Witness ==
    /\ stage = "main" /\ pc = "afterConcepts"
    /\ Len(emitted["http://snomed.info/sct"]) = 3
    /\ Len(emitted["http://loinc.org"]) = 1
    /\ Cardinality(BatchesOf("http://snomed.info/sct")) = 2

\* The posts the destination rejected.
RejectedPosts == {i \in 1..Len(sent) : sent[i].ack \in PostErrors}

\* The state of a run one of whose posts was rejected: the run has failed, the
\* rejected post is the last one the pass issued, and main's catch has printed
\* an error in place of 'Done'.
FailedOnLastPost ==
    RejectedPosts # {} =>
        /\ stage = "failed"
        /\ RejectedPosts = {Len(sent)}
        /\ inflight = <<>>
        /\ \E j \in 1..Len(errlog) : errlog[j].by = "main"

\* C12: once a post is rejected the run does nothing more: no row is read, no
\* batch is posted, no pass or stage starts, 'Done' is never printed; and the
\* step in which the post is rejected leaves the destination as the earlier
\* posts made it.
C12_FlushFailureFatal ==
    /\ []FailedOnLastPost
    /\ [][RejectedPosts = {}]_vars
    /\ [][RejectedPosts' # {} => dest' = dest /\ nread' = nread /\ Len(sent') = Len(sent)]_vars

\* The concept pass posted a full batch, which the destination applied, and the
\* next post was rejected.
C12_Witness ==
    /\ stage = "failed"
    /\ Len(sent) = 2
    /\ sent[1].ack = "ok" /\ sent[2].ack \in PostErrors
    /\ ledger = <<>>
    /\ \A i \in 1..Len(sent[1].items) :
          <<sent[1].system, sent[1].items[i].code>> \in DOMAIN dest

\* The posts that have not settled.
Outstanding == {i \in 1..Len(sent) : sent[i].ack = "pending"}

\* C13: at most one post is outstanding at any time, and a step the run takes
\* while a post is outstanding is the step in which that post settles: it reads
\* no row, builds no item, issues no post and leaves the AtomIndex alone.
C13_OneInFlight ==
    /\ [](Cardinality(Outstanding) <= 1)
    /\ [][Outstanding # {} =>
            /\ Outstanding' = {}
            /\ nread' = nread
            /\ emitted' = emitted
            /\ Len(sent') = Len(sent)
            /\ mappedConcepts' = mappedConcepts
            /\ skipped' = skipped]_vars

\* The relationship pass waits for the post of a full batch.
C13_Witness ==
    /\ stage = "relationships" /\ pc = "send"
    /\ Cardinality(Outstanding) = 1
    /\ \E s \in Systems : Len(OpenBatch(s)) = BatchSize

\* Every item the pass built has been posted and every post has resolved.
FlushedAll ==
    /\ \A i \in 1..Len(sent) : sent[i].ack = "ok"
    /\ \A s \in Systems : SentItems(sent, s) = emitted[s]

\* C14: the run moves from one function to the next only in the order of main:
\* a pass returns to main with its final flush done, the property pass starts
\* only when the concept pass has returned, the derivation of the mapping only
\* when the property pass has returned, the relationship pass only when the
\* derivation has returned; rows are read only inside a pass.
C14_PassOrder ==
    /\ [][stage' # stage =>
            \/ stage' = "failed"
            \/ stage = "addSources" /\ stage' = "concepts"
            \/ stage = "concepts" /\ stage' = "main" /\ pc' = "afterConcepts" /\ FlushedAll'
            \/ stage = "main" /\ pc = "afterConcepts" /\ stage' = "properties"
            \/ stage = "properties" /\ stage' = "main" /\ pc' = "afterProperties"
                  /\ FlushedAll'
            \/ stage = "main" /\ pc = "afterProperties" /\ stage' = "prepare"
            \/ stage = "prepare" /\ stage' = "main" /\ pc' = "afterPrepare"
            \/ stage = "main" /\ pc = "afterPrepare" /\ stage' = "relationships"
            \/ stage = "relationships" /\ stage' = "main" /\ pc' = "afterRelationships"
                  /\ FlushedAll'
            \/ stage = "main" /\ pc = "afterRelationships" /\ stage' = "done"]_vars
    /\ [][stage' = stage /\ stage = "main" => pc' = pc]_vars
    /\ [][nread' # nread /\ nread' # 0 =>
            stage' = stage /\ stage \in {"concepts", "properties", "prepare", "relationships"}]_vars

\* The relationship pass has read its first row, with the AtomIndex of the
\* concept pass and the mapping of the derivation at hand.
C14_Witness ==
    /\ stage = "relationships" /\ nread = 1
    /\ Len(ledger) = 2
    /\ mappedConcepts # EmptyMap
    /\ relationshipProperties # EmptyMap

\* C15: no step removes a key from the AtomIndex; a step outside
\* processConcepts leaves the AtomIndex as it is; a step of processRelationships
\* leaves the map prepareRelationshipProperties returned as it is.
C15_IndexWrittenByConceptPass ==
    [][/\ DOMAIN mappedConcepts \subseteq DOMAIN mappedConcepts'
       /\ stage # "concepts" => mappedConcepts' = mappedConcepts
       /\ stage = "relationships" => relationshipProperties' = relationshipProperties]_vars

\* The relationship pass has emitted an assertion and dropped a row, with the
\* AtomIndex and the mapping it was given.
C15_Witness ==
    /\ stage = "relationships" /\ pc = "loop"
    /\ processed = 1 /\ skipped = 1
    /\ Cardinality(DOMAIN mappedConcepts) >= 4
    /\ relationshipProperties # EmptyMap

\* ---------------------------------------------------------------------------
\* The concept pass run again from the beginning against the same destination.
\* A reference run imports a file into an empty destination; a second, equal
\* destination then receives an attempt on the same file (which a rejected flush
\* may abort at any point, or which completes), followed by a complete re-run.
\* ---------------------------------------------------------------------------

MaxRerunLines == 3

RerunLines == RunConceptLines

\* const mappedConcepts = Object.create(null): the index a new call of
\* processConcepts starts with, whatever an earlier process had in its own.
EntryIndex_Kept(m) == m

EntryIndex(m) == EmptyMap

\* The reference run reads one more line of its file.
RerunFirstLine ==
    \E line \in RerunLines :
        /\ run = 1 /\ Len(fed) < MaxRerunLines
        /\ ProcessConceptLine(line)
        /\ fed' = Append(fed, line)
        /\ UNCHANGED <<accepted, run, todo, first, ledger>>

\* A later run reads the next line of the same file.
RerunReplayLine ==
    /\ run > 1 /\ nread < Len(first[1].file)
    /\ ProcessConceptLine(first[1].file[nread + 1])
    /\ UNCHANGED harnessVars

\* The stream ends when the file is exhausted.
RerunEnd ==
    /\ run > 1 => nread = Len(first[1].file)
    /\ ConceptEnd

\* The locals of a new call of processConcepts (lines 691-695).
FreshCall(index) ==
    /\ stage' = "concepts" /\ pc' = "loop"
    /\ nread' = 0 /\ processed' = 0 /\ skipped' = 0
    /\ counts' = <<>> /\ codings' = <<>>
    /\ inflight' = <<>> /\ finalIdx' = 0 /\ sent' = <<>>
    /\ mappedConcepts' = index
    /\ summary' = <<>>
    /\ emitted' = NoneEmitted

\* The reference run has returned; its file and the destination it produced are
\* kept, and the attempt starts against a destination that is empty again.
RerunAttempt ==
    /\ run = 1 /\ stage = "main" /\ pc = "afterConcepts"
    /\ first' = <<[file |-> fed, dest |-> dest]>>
    /\ run' = 2
    /\ dest' = EmptyMap
    /\ errlog' = <<>>
    /\ FreshCall(EmptyMap)
    /\ UNCHANGED <<properties, mainVars, accepted, fed, todo, ledger>>

\* The attempt has returned or was aborted by a rejected flush; the script is
\* started again on the same file, and the destination keeps what it was sent.
Rerun ==
    /\ run = 2
    /\ \/ stage = "main" /\ pc = "afterConcepts"
       \/ stage = "failed"
    /\ first' = Append(first, [aborted |-> stage = "failed", dest |-> dest, posts |-> Len(sent)])
    /\ run' = 3
    /\ FreshCall(EntryIndex(mappedConcepts))
    /\ UNCHANGED <<properties, dest, errlog, mainVars, accepted, fed, todo, ledger>>

RerunSendOk ==
    /\ ConceptSendOk
    /\ UNCHANGED harnessVars

\* Only the attempt is aborted: the reference run and the re-run are complete runs.
RerunSendFail ==
    /\ run = 2
    /\ ConceptSendFail

NextRerun ==
    \/ RerunFirstLine
    \/ RerunReplayLine
    \/ RerunSendOk
    \/ RerunSendFail
    \/ RerunEnd
    \/ ConceptFinal
    \/ ConceptFinalSendOk
    \/ RerunAttempt
    \/ Rerun

SpecRerun == InitConcepts /\ [][NextRerun]_vars

RerunReturned == run = 3 /\ stage = "main" /\ pc = "afterConcepts"

\* C16: with an upsert per (system, code) at the destination, a complete re-run
\* of the concept pass from the beginning, after an attempt that completed or
\* that a rejected flush aborted at any point, leaves the destination with the
\* same code-to-display state as one complete uninterrupted run of the same file.
C16_RerunSameDestination ==
    RerunReturned => dest = first[1].dest

\* A re-run has returned after an attempt that a rejected flush aborted once a
\* batch had been applied, and it changed what the destination held.
C16_Witness ==
    /\ RerunReturned
    /\ first[2].aborted
    /\ first[2].posts = 2
    /\ first[2].dest # EmptyMap
    /\ first[2].dest # dest
    /\ dest = first[1].dest

(***************************************************************************)
(* The whole run on files that hold, next to accepted rows, a row of every *)
(* kind a pass filters out and lines cut short before their last column.   *)
(***************************************************************************)
\* The longest file of this run.
MaxRowLines == 2

\* line.split('|') of the lines a well-formed row gives when it is cut after
\* one of its columns, of the empty line, and of the row with one column lost.
ShortLines(row) ==
    {SubSeq(row, 1, n) : n \in 1..(Len(row) - 1)} \cup {<<"">>} \cup
    {SubSeq(row, 1, i - 1) \o SubSeq(row, i + 1, Len(row)) : i \in 1..Len(row)}

RowConceptAccepted ==
    { ConceptRow("ENG", "A1", "SNOMEDCT_US", "PT", "100", AtomStr["A1"], "N"),
      ConceptRow("ENG", "A2", "SNOMEDCT_US", "PT", "200", AtomStr["A2"], "N") }

RowConceptLines ==
    RowConceptAccepted \cup
    { ConceptRow("ENG", "A3", "MSH", "PT", "100", AtomStr["A3"], "N"),
      ConceptRow("SPA", "A3", "SNOMEDCT_US", "PT", "100", AtomStr["A3"], "N"),
      ConceptRow("ENG", "A3", "SNOMEDCT_US", "XX", "100", AtomStr["A3"], "N"),
      ConceptRow("ENG", "A3", "SNOMEDCT_US", "PT", "100", AtomStr["A3"], "O") } \cup
    ShortLines(ConceptRow("ENG", "A3", "SNOMEDCT_US", "PT", "100", AtomStr["A3"], "N"))

RowAttributeAccepted ==
    { AttributeRow("300", "LOINC_COMPONENT", "LNC", "Glucose", "N"),
      AttributeRow("300", "CLASS", "LNC", "CHEM", "N") }

RowAttributeLines ==
    RowAttributeAccepted \cup
    { AttributeRow("300", "CLASS", "MSH", "CHEM", "N"),
      AttributeRow("300", "CLASS", "LNC", "CHEM", "O"),
      AttributeRow("300", "ACTIVE", "LNC", "1", "N") } \cup
    ShortLines(AttributeRow("300", "CLASS", "LNC", "CHEM", "N"))

RowRelationshipAccepted ==
    { RelationshipRow("A1", "PAR", "A2", "", "SNOMEDCT_US", "N"),
      RelationshipRow("A2", "CHD", "A1", "isa", "SNOMEDCT_US", "N") }

RowRelationshipLines ==
    RowRelationshipAccepted \cup
    { RelationshipRow("A1", "PAR", "A2", "", "MSH", "N"),
      RelationshipRow("A1", "PAR", "A2", "", "SNOMEDCT_US", "O"),
      RelationshipRow("A1", "RO", "A2", "part_of", "SNOMEDCT_US", "N"),
      RelationshipRow("A1", "PAR", "A9", "", "SNOMEDCT_US", "N"),
      RelationshipRow("A9", "PAR", "A2", "", "SNOMEDCT_US", "N") } \cup
    ShortLines(RelationshipRow("A1", "PAR", "A2", "", "SNOMEDCT_US", "N"))

\* The number of columns the constructor of the pass's record binds up to SUPPRESS.
SchemaColumns == [concepts |-> 17, properties |-> 12, relationships |-> 15]

\* History: the passes that have consumed a line with fewer columns.
ShortSeen(line) == IF Len(line) < SchemaColumns[stage] THEN todo \cup {stage} ELSE todo

RowConceptLine ==
    \E line \in RowConceptLines :
        /\ nread < MaxRowLines
        /\ ProcessConceptLine(line)
        /\ todo' = ShortSeen(line)
        /\ UNCHANGED <<accepted, run, fed, first, ledger>>

RowAttributeLine ==
    \E line \in RowAttributeLines :
        /\ nread < MaxRowLines
        /\ ProcessAttributeLine(line)
        /\ todo' = ShortSeen(line)
        /\ UNCHANGED <<accepted, run, fed, first, ledger>>

RowDocLine ==
    \E line \in RunDocLines :
        /\ nread < MaxRowLines
        /\ ProcessDocLine(line)
        /\ UNCHANGED harnessVars

RowRelationshipLine ==
    \E line \in RowRelationshipLines :
        /\ nread < MaxRowLines
        /\ ProcessRelationshipLine(line)
        /\ todo' = ShortSeen(line)
        /\ UNCHANGED <<accepted, run, fed, first, ledger>>

NextRows ==
    \/ AddSource
    \/ AddSourceFail
    \/ EnterConcepts
    \/ RowConceptLine
    \/ ConceptSendOk
    \/ ConceptSendFail
    \/ ConceptEnd
    \/ ConceptFinal
    \/ ConceptFinalSendOk
    \/ EnterProperties
    \/ RowAttributeLine
    \/ AttributeSendOk
    \/ AttributeSendFail
    \/ AttributeEnd
    \/ AttributeFinal
    \/ AttributeFinalSendOk
    \/ EnterPrepare
    \/ RowDocLine
    \/ PrepareEnd
    \/ EnterRelationships
    \/ RowRelationshipLine
    \/ RelationshipSendOk
    \/ RelationshipSendFail
    \/ RelationshipEnd
    \/ RelationshipFinal
    \/ RelationshipFinalSendOk
    \/ Done

SpecRows == InitMain /\ [][NextRows]_vars

(***************************************************************************)
(* Claims about filtered and malformed rows.                               *)
(***************************************************************************)
AtAttributeLoop == stage = "properties" /\ pc = "loop"

\* A counter of the pass moved: skipped, processed or one of the counts.
Counted(after) ==
    \/ after.skipped > skipped
    \/ after.processed > processed
    \/ after.counts # counts

\* The iteration did not end the pass: nothing was thrown and the loop is at its
\* head again, where it takes the next line of the stream.
GoesOn(after) == after.pc = "loop" /\ pc = "loop"

\* The attribute's label is neither a property of its source nor an alias of one.
UnmappableAttribute(attr) ==
    \A i \in 1..Len(resourceProperty[attr.SAB]) :
        /\ resourceProperty[attr.SAB][i].code # attr.ATN
        /\ (attr.ATN \notin DOMAIN mappedProperties
              \/ resourceProperty[attr.SAB][i].code # mappedProperties[attr.ATN])

FilteredAttribute(attr) ==
    \/ attr.SAB \notin DOMAIN umlsSources
    \/ attr.SUPPRESS # "N"
    \/ UnmappableAttribute(attr)

FilteredRelationship(rel) ==
    \/ ~ReachesEndpoints(rel)
    \/ ~Resolves(rel.AUI1)
    \/ ~Resolves(rel.AUI2)

\* C17 as the spec states it: in every pass each filtered row (unknown source,
\* wrong language, term type not accepted, suppressed, unmappable label, missing
\* atom endpoint) moves a counter, and the pass goes on with the next row.
C17_FilteredCounted ==
    /\ AtConceptLoop =>
          \A line \in RowConceptLines :
              C9_Rejected(UmlsConcept(line)) =>
                  /\ GoesOn(ConceptIteration(line))
                  /\ Counted(ConceptIteration(line))
    /\ AtAttributeLoop =>
          \A line \in RowAttributeLines :
              FilteredAttribute(UmlsAttribute(line)) =>
                  /\ GoesOn(AttributeIteration(line))
                  /\ AttributeIteration(line).threw = ""
                  /\ Counted(AttributeIteration(line))
    /\ AtRelationshipLoop =>
          \A line \in RowRelationshipLines :
              FilteredRelationship(UmlsRelationship(line)) =>
                  /\ GoesOn(RelationshipIteration(line))
                  /\ RelationshipIteration(line).threw = ""
                  /\ Counted(RelationshipIteration(line))

\* The filtered rows the code counts: a suppressed concept row that passed the
\* source, language and term-type tests, a suppressed attribute or relationship
\* row of a registry source, and a relationship row with a mapped label and an
\* endpoint that does not resolve.
CountedConcept(c) ==
    /\ c.SAB \in DOMAIN umlsSources
    /\ c.LAT = "ENG"
    /\ \E i \in 1..Len(umlsSources[c.SAB].tty) : umlsSources[c.SAB].tty[i] = c.TTY
    /\ c.SUPPRESS # "N"

CountedAttribute(attr) == attr.SAB \in DOMAIN umlsSources /\ attr.SUPPRESS # "N"

CountedRelationship(rel) ==
    /\ rel.SAB \in DOMAIN umlsSources
    /\ \/ rel.SUPPRESS # "N"
       \/ ReachesEndpoints(rel) /\ (~Resolves(rel.AUI1) \/ ~Resolves(rel.AUI2))

\* C17 (amended): in every pass a filtered row never aborts the pass, which goes
\* on with the next row, builds no item, posts nothing and leaves processed and
\* the counts as they were; it adds one to skipped if it is suppressed (and, in
\* the concept pass, passed the source, language and term-type tests) or is a
\* relationship row with a mapped label and a missing endpoint, and moves no
\* counter at all if it is of an unknown source, of another language, of a term
\* type that is not accepted or has an unmappable label.
C17_FilteredNeverAborts ==
    /\ AtConceptLoop =>
          \A line \in RowConceptLines :
              LET c == UmlsConcept(line)
                  after == ConceptIteration(line)
              IN  C9_Rejected(c) =>
                      /\ GoesOn(after)
                      /\ after.emitted = emitted /\ after.sent = sent
                      /\ after.processed = processed /\ after.counts = counts
                      /\ after.skipped = skipped + (IF CountedConcept(c) THEN 1 ELSE 0)
    /\ AtAttributeLoop =>
          \A line \in RowAttributeLines :
              LET attr == UmlsAttribute(line)
                  after == AttributeIteration(line)
              IN  FilteredAttribute(attr) =>
                      /\ GoesOn(after) /\ after.threw = ""
                      /\ after.emitted = emitted /\ after.sent = sent
                      /\ after.processed = processed /\ after.counts = counts
                      /\ after.skipped = skipped + (IF CountedAttribute(attr) THEN 1 ELSE 0)
    /\ AtRelationshipLoop =>
          \A line \in RowRelationshipLines :
              LET rel == UmlsRelationship(line)
                  after == RelationshipIteration(line)
              IN  FilteredRelationship(rel) =>
                      /\ GoesOn(after) /\ after.threw = ""
                      /\ after.emitted = emitted /\ after.sent = sent
                      /\ after.processed = processed /\ after.counts = counts
                      /\ after.skipped = skipped + (IF CountedRelationship(rel) THEN 1 ELSE 0)

\* The relationship pass has consumed two filtered rows, one counted for its
\* missing endpoint and one that moved no counter, and is at the head of its
\* loop for the next row.
C17_Witness ==
    /\ AtRelationshipLoop
    /\ nread = 2 /\ skipped = 1 /\ processed = 0
    /\ \E i \in 1..Len(errlog) :
           errlog[i].by = "processRelationships" /\ errlog[i].atom = "A9"
    /\ \E line \in RowRelationshipLines :
           /\ FilteredRelationship(UmlsRelationship(line))
           /\ ~CountedRelationship(UmlsRelationship(line))

\* A line with fewer columns than the record of the pass binds.
Short(line, pass) == Len(line) < SchemaColumns[pass]

\* C20: in the concept, attribute and relationship passes a line with fewer
\* columns than its schema, whose SUPPRESS is therefore absent, throws nothing,
\* adds nothing to the AtomIndex, to any batch or to processed, posts nothing,
\* and leaves the pass at the head of its loop for the next line.
C20_ShortLineInert ==
    /\ AtConceptLoop =>
          \A line \in RowConceptLines :
              LET after == ConceptIteration(line)
              IN  Short(line, "concepts") =>
                      /\ UmlsConcept(line).SUPPRESS = Undefined
                      /\ after.pc = "loop"
                      /\ after.mappedConcepts = mappedConcepts
                      /\ after.codings = codings /\ after.emitted = emitted
                      /\ after.inflight = inflight /\ after.sent = sent
                      /\ after.processed = processed
    /\ AtAttributeLoop =>
          \A line \in RowAttributeLines :
              LET after == AttributeIteration(line)
              IN  Short(line, "properties") =>
                      /\ UmlsAttribute(line).SUPPRESS = Undefined
                      /\ after.pc = "loop" /\ after.threw = ""
                      /\ after.properties = properties /\ after.emitted = emitted
                      /\ after.inflight = inflight /\ after.sent = sent
                      /\ after.processed = processed
    /\ AtRelationshipLoop =>
          \A line \in RowRelationshipLines :
              LET after == RelationshipIteration(line)
              IN  Short(line, "relationships") =>
                      /\ UmlsRelationship(line).SUPPRESS = Undefined
                      /\ after.pc = "loop" /\ after.threw = ""
                      /\ after.properties = properties /\ after.emitted = emitted
                      /\ after.inflight = inflight /\ after.sent = sent
                      /\ after.processed = processed

\* Each of the three passes has consumed a short line; the relationship pass has
\* read two of them, is at the head of its loop and has processed nothing, and
\* the AtomIndex holds what the accepted concept row put there.
C20_Witness ==
    /\ todo = {"concepts", "properties", "relationships"}
    /\ AtRelationshipLoop
    /\ nread = 2 /\ processed = 0 /\ skipped = 1
    /\ Cardinality(DOMAIN mappedConcepts) = 2
    /\ properties = <<>> /\ sent = <<>>

(***************************************************************************)
(* The whole run when some of the input files do not exist.                *)
(***************************************************************************)
InputFiles == {PassFile[pass] : pass \in DOMAIN PassFile}

\* main is about to call the pass (lines 576, 578, 580, 581).
AtCall(pass) ==
    IF pass = "concepts" THEN stage = "addSources" /\ Len(created) = Len(SourceOrder)
    ELSE IF pass = "properties" THEN stage = "main" /\ pc = "afterConcepts"
    ELSE IF pass = "prepare" THEN stage = "main" /\ pc = "afterProperties"
    ELSE stage = "main" /\ pc = "afterPrepare"

\* The pass is called and the file it opens does not exist: the stream fails with
\* ENOENT before it yields a line.  The readline iterator rejects and main's
\* catch prints the error, or the stream's 'error' event, which has no listener,
\* ends the process; either way nothing runs after it.
OpenFail ==
    /\ \E pass \in DOMAIN PassFile : AtCall(pass) /\ PassFile[pass] \in missing
    /\ \E by \in {"main", "process"} : errlog' = Append(errlog, ErrorLine(by, "", "ENOENT"))
    /\ stage' = "failed"
    /\ pc' = "rejected"
    /\ ledger' = IF stage = "main" THEN Append(ledger, Tally) ELSE ledger
    /\ UNCHANGED <<nread, processed, skipped, counts, codings, properties, inflight,
                   finalIdx, sent, summary, emitted, mainVars, mappedConcepts, dest,
                   accepted, run, fed, todo, first>>

InitFiles ==
    /\ InitRun
    /\ missing \in SUBSET InputFiles

NextFiles ==
    \/ NextRows
    \/ OpenFail

SpecFiles == InitFiles /\ [][NextFiles]_vars

\* C18: in a run where one of the four input files is missing no pass begins, no
\* record is consumed and no batch is sent.
C18_MissingFileFatalAtStartup ==
    missing # {} =>
        /\ stage \notin DOMAIN PassFile
        /\ nread = 0
        /\ sent = <<>>
        /\ ledger = <<>>

(***************************************************************************)
(* Claims about what is reported when a post is rejected.                  *)
(***************************************************************************)
\* The lines console.error printed, as opposed to the warnings of the
\* relationship pass.
ErrorLines == {j \in 1..Len(errlog) : errlog[j].by \in {"sendCodings", "main"}}

\* C19: when the destination rejects a batch of any of the three passes with an
\* OperationOutcome, the error that reaches main's catch is that error and a line
\* reported with it names the system the batch was for.
C19_RejectionNamesSystem ==
    \A i \in 1..Len(sent) :
        sent[i].ack = "OperationOutcomeError" =>
            /\ \E j \in ErrorLines : errlog[j].by = "main" /\ errlog[j].error = sent[i].ack
            /\ \E j \in ErrorLines : errlog[j].system = sent[i].system

(***************************************************************************)
(* Claims about the index and the counts of the concept pass.              *)
(***************************************************************************)
\* The keys of the AtomIndex that are atom identifiers, not SAB|CODE keys.
AtomKeys == DOMAIN mappedConcepts \ WinnerKeys

\* C21: every row that passes the four filters is stored in the AtomIndex under
\* its atom identifier, whether or not it becomes the winner of its (source,
\* code); at every point of the concept pass and after it the atom-identifier
\* keys of the AtomIndex are exactly the atom identifiers of the accepted rows,
\* and each holds an accepted row of that identifier.
C21_EveryAcceptedAtomIndexed ==
    /\ AtomKeys = {r.AUI : r \in accepted}
    /\ \A k \in AtomKeys : mappedConcepts[k] \in accepted /\ mappedConcepts[k].AUI = k
    /\ AtConceptLoop =>
          \A line \in ConceptLines :
              LET c == UmlsConcept(line)
                  after == ConceptIteration(line)
              IN  AcceptedRow(c) =>
                      /\ c.AUI \in DOMAIN after.mappedConcepts
                      /\ after.mappedConcepts[c.AUI] = c

\* The pass has returned and the index holds, under its atom identifier, an
\* accepted row that lost the term-type comparison to the winner of its code.
C21_Witness ==
    /\ ConceptsReturned
    /\ \E r \in accepted :
          /\ mappedConcepts[r.AUI] = r
          /\ mappedConcepts[WinnerKey(r)] # r
          /\ TermTypeIndex(mappedConcepts[WinnerKey(r)]) < TermTypeIndex(r)

\* counts[system] ?? 0
CountOf(cnts, system) == IF Has(cnts, system) THEN Get(cnts, system) ELSE 0

\* The (source, code) pairs of the accepted rows of the sources of one system.
AcceptedPairs(system) == {WinnerKey(r) : r \in {q \in accepted : umlsSources[q.SAB].system = system}}

\* C22: an accepted row adds one to the count of its system if it is the first
\* accepted row of its (source, code) and leaves every count alone if it is not,
\* also when it replaces the winner; so at every point of the concept pass, and
\* when it has returned, counts[system] is the number of distinct accepted
\* (source, code) pairs of the sources of that system.
C22_CountedOncePerCode ==
    /\ \A system \in Systems : CountOf(counts, system) = Cardinality(AcceptedPairs(system))
    /\ AtConceptLoop =>
          \A line \in ConceptLines :
              LET c == UmlsConcept(line)
                  after == ConceptIteration(line)
              IN  AcceptedRow(c) =>
                      \A system \in Systems :
                          CountOf(after.counts, system) =
                              CountOf(counts, system) +
                                 (IF /\ system = umlsSources[c.SAB].system
                                     /\ AcceptedFor(WinnerKey(c)) = {}
                                  THEN 1 ELSE 0)

\* The pass has returned with three codings built for a system that counts two
\* codes: one of the three rows replaced the winner of its code and was not
\* counted again.
C22_Witness ==
    /\ ConceptsReturned
    /\ \E system \in Systems :
          /\ CountOf(counts, system) = 2
          /\ Len(emitted[system]) = 3

\* The coding of a record: { code: concept.CODE, display: concept.STR }.
CodingOf(c) == [code |-> c.CODE, display |-> c.STR]

\* The batch of a system as an iteration of the concept loop leaves it: the array
\* handed to the post if the iteration ended in a flush, the open batch if not.
BatchAfter(after, system) ==
    IF after.inflight # <<>> /\ after.inflight[1].system = system
    THEN after.inflight[1].items
    ELSE IF Has(after.codings, system) THEN Get(after.codings, system) ELSE <<>>

\* C23 as the spec states it: every row that passes the four filters appends one
\* coding, that of the winner of its (source, code) after the row, to the open
\* batch of its system.
C23_EveryAcceptedAppends ==
    AtConceptLoop =>
        \A line \in ConceptLines :
            LET c == UmlsConcept(line)
                after == ConceptIteration(line)
                system == umlsSources[c.SAB].system
            IN  AcceptedRow(c) =>
                    BatchAfter(after, system) =
                        Append(OpenBatch(system),
                               CodingOf(after.mappedConcepts[WinnerKey(c)]))

\* The row is the first accepted row of its (source, code) or is strictly more
\* preferred than the record stored for the pair.
BecomesWinner(c) ==
    \/ WinnerKey(c) \notin DOMAIN mappedConcepts
    \/ TermTypeIndex(c) < TermTypeIndex(mappedConcepts[WinnerKey(c)])

\* C23 (amended): a row that passes the four filters and is the first of its
\* (source, code) or strictly more preferred than the incumbent becomes the
\* winner and appends exactly one coding, its own {code, display}, at the end of
\* the open batch of its system, and touches no other batch; a row that passes
\* the filters but is not more preferred than the incumbent appends nothing and
\* leaves the winner and every batch as they were.
C23_WinnerAppends ==
    AtConceptLoop =>
        \A line \in ConceptLines :
            LET c == UmlsConcept(line)
                after == ConceptIteration(line)
                system == umlsSources[c.SAB].system
            IN  AcceptedRow(c) =>
                    /\ \A other \in Systems \ {system} :
                          BatchAfter(after, other) = OpenBatch(other)
                    /\ IF BecomesWinner(c)
                       THEN /\ after.mappedConcepts[WinnerKey(c)] = c
                            /\ BatchAfter(after, system) =
                                   Append(OpenBatch(system), CodingOf(c))
                            /\ after.emitted[system] = Append(emitted[system], CodingOf(c))
                       ELSE /\ after.mappedConcepts[WinnerKey(c)] = mappedConcepts[WinnerKey(c)]
                            /\ BatchAfter(after, system) = OpenBatch(system)
                            /\ after.emitted = emitted
                            /\ after.processed = processed

\* Three accepted rows were read: two appended a coding of the same code, the
\* second replacing the first as winner, and one appended nothing.
C23_Witness ==
    /\ AtConceptLoop
    /\ nread = 3 /\ Cardinality(accepted) = 3 /\ processed = 2
    /\ \E system \in Systems :
          /\ Len(emitted[system]) = 2
          /\ emitted[system][1].code = emitted[system][2].code
          /\ emitted[system][1].display # emitted[system][2].display

(***************************************************************************)
(* Claims about the property a relationship row is filed under.            *)
(***************************************************************************)
\* The code of the source's property of the given uri, empty if it has none.
PropertyOfUri(sab, uri) ==
    IF \E i \in 1..Len(resourceProperty[sab]) : resourceProperty[sab][i].uri = uri
    THEN resourceProperty[sab][CHOOSE i \in 1..Len(resourceProperty[sab]) :
                                  /\ resourceProperty[sab][i].uri = uri
                                  /\ \A j \in 1..(i - 1) : resourceProperty[sab][j].uri # uri].code
    ELSE ""

\* The choice in the order of the claim: the entry of the derived map for
\* SAB/REL/RELA if there is one, else the parent property for PAR, else the
\* child property for CHD, else nothing.
ChosenProperty(rel) ==
    IF (rel.SAB \o "/" \o rel.REL \o "/" \o rel.RELA) \in DOMAIN relationshipProperties
    THEN relationshipProperties[rel.SAB \o "/" \o rel.REL \o "/" \o rel.RELA]
    ELSE IF rel.REL = "PAR" THEN PropertyOfUri(rel.SAB, PARENT_PROPERTY)
    ELSE IF rel.REL = "CHD" THEN PropertyOfUri(rel.SAB, CHILD_PROPERTY)
    ELSE ""

\* C24: for a non-suppressed row of a registry source the relationship pass
\* files the row under the entry of the derived map for SAB/REL/RELA if there is
\* one, also when REL is PAR or CHD; else under the parent property of the source
\* if REL is PAR; else under its child property if REL is CHD.  The assertion the
\* row emits, or the warning it logs when an endpoint is missing, carries that
\* property; if the choice gives no non-empty code the row emits nothing, logs
\* nothing and moves no counter.
C24_PropertyChoiceOrder ==
    AtRelationshipLoop =>
        \A line \in RelLines :
            LET rel == UmlsRelationship(line)
                after == RelationshipIteration(line)
            IN  (rel.SAB \in DOMAIN umlsSources /\ rel.SUPPRESS = "N") =>
                    IF ChosenProperty(rel) = ""
                    THEN /\ NewItems(after) = {} /\ after.warn = <<>>
                         /\ after.skipped = skipped /\ after.processed = processed
                    ELSE /\ \A item \in NewItems(after) : item.property = ChosenProperty(rel)
                         /\ \A i \in 1..Len(after.warn) : after.warn[i].name = ChosenProperty(rel)
                         /\ Cardinality(NewItems(after)) + Len(after.warn) = 1

\* The pass has filed a CHD row under the entry the derived map has for its
\* labels, not under the child property, and a PAR row without an entry under
\* the parent property.
C24_Witness ==
    /\ AtRelationshipLoop
    /\ "SNOMEDCT_US/CHD/isa" \in DOMAIN relationshipProperties
    /\ \E s \in Systems :
          /\ \E i \in 1..Len(emitted[s]) :
                emitted[s][i].property = relationshipProperties["SNOMEDCT_US/CHD/isa"]
          /\ \E i \in 1..Len(emitted[s]) : emitted[s][i].property = "parent"

(***************************************************************************)
(* prepareRelationshipProperties on its own, from its entry, on files that *)
(* hold mapping rows, rows of other keys and types, two rows of the same   *)
(* key and abbreviation, and two abbreviations of the same labels.         *)
(***************************************************************************)
\* The longest documentation file a behaviour reads.
MaxDocLines == 3

DocLines ==
    { <<"REL", "116680003", "snomedct_rel_mapping", "CHD", "">>,
      <<"REL", "116680003", "snomedct_rel_mapping", "RO", "">>,
      <<"RELA", "116680003", "snomedct_rela_mapping", "isa", "">>,
      <<"REL", "363698007", "snomedct_rel_mapping", "CHD", "">>,
      <<"RELA", "363698007", "snomedct_rela_mapping", "isa", "">>,
      <<"REL", "116680003", "snomedct_rela_mapping", "PAR", "">>,
      <<"RELA", "116680003", "snomedct_rel_mapping", "inverse_isa", "">>,
      <<"REL", "116680003", "expanded_form", "has child", "">>,
      <<"ATN", "116680003", "snomedct_rel_mapping", "PAR", "">> }

InitDoc ==
    /\ stage = "prepare" /\ pc = "loop"
    /\ InitLocals
    /\ mappedConcepts = EmptyMap
    /\ dest = EmptyMap
    /\ summary = <<>> /\ errlog = <<>>
    /\ created = <<>> /\ propertyMappings = <<>> /\ relationshipProperties = EmptyMap
    /\ missing = {}
    /\ accepted = {} /\ run = 1 /\ fed = <<>> /\ todo = {} /\ first = <<>>
    /\ ledger = <<>>

\* The stream yields one more line; the lines read are kept as history.
DocLine ==
    \E line \in DocLines :
        /\ nread < MaxDocLines
        /\ ProcessDocLine(line)
        /\ fed' = Append(fed, line)
        /\ UNCHANGED <<accepted, run, todo, first, ledger>>

NextDoc ==
    \/ DocLine
    \/ PrepareEnd

SpecDoc == InitDoc /\ [][NextDoc]_vars

\* What prepareRelationshipProperties returns on a file: lines 804-817.
RECURSIVE ReadDocs(_, _)
ReadDocs(pm, lines) ==
    IF lines = <<>> THEN pm ELSE ReadDocs(DocIteration(pm, Head(lines)), Tail(lines))

PrepareResult(lines) == FromMappings(EmptyMap, ReadDocs(<<>>, lines))

(***************************************************************************)
(* Claims about the derived relationship map.                              *)
(***************************************************************************)
AtDocLoop == stage = "prepare" /\ pc = "loop"

DocsReturned == stage = "main" /\ pc = "afterPrepare"

\* A row the claim retains: DOCKEY REL with the relationship-mapping type, or
\* DOCKEY RELA with the sub-relationship-mapping type.
Retained(doc) ==
    \/ doc.DOCKEY = "REL" /\ doc.TYPE = "snomedct_rel_mapping"
    \/ doc.DOCKEY = "RELA" /\ doc.TYPE = "snomedct_rela_mapping"

DocValues == {UmlsDoc(line).VALUE : line \in DocLines}

\* The positions of the file read so far that hold a retained row of the given
\* key and abbreviation.
RowsOf(key, value) ==
    {i \in 1..Len(fed) : /\ Retained(UmlsDoc(fed[i]))
                         /\ UmlsDoc(fed[i]).DOCKEY = key
                         /\ UmlsDoc(fed[i]).VALUE = value}

MaxOf(S) == CHOOSE x \in S : \A y \in S : y <= x

MinOf(S) == CHOOSE x \in S : \A y \in S : x <= y

\* The EXPL of the last such row, if there is one.
LastExpl(key, value) ==
    IF RowsOf(key, value) = {} THEN Undefined
    ELSE UmlsDoc(fed[MaxOf(RowsOf(key, value))]).EXPL

RetainedValues == {v \in DocValues : RowsOf("REL", v) \cup RowsOf("RELA", v) # {}}

\* 'SOURCE/rel/rela' of an abbreviation, a missing rel or rela as the empty string.
KeyOf(value) ==
    "SNOMEDCT_US/"
       \o (IF LastExpl("REL", value) = Undefined THEN "" ELSE LastExpl("REL", value))
       \o "/"
       \o (IF LastExpl("RELA", value) = Undefined THEN "" ELSE LastExpl("RELA", value))

Reorderings(n) == {p \in [1..n -> 1..n] : \A i, j \in 1..n : p[i] = p[j] => i = j}

\* The function returns the same map on every reordering of the file it read.
SameInAnyOrder ==
    \A p \in Reorderings(Len(fed)) :
        PrepareResult([i \in 1..Len(fed) |-> fed[p[i]]]) = relationshipProperties

\* A row that is not retained leaves the mappings as they are.
OthersIgnored ==
    AtDocLoop =>
        \A line \in DocLines :
            ~Retained(UmlsDoc(line)) => DocIteration(propertyMappings, line) = propertyMappings

Unambiguous ==
    /\ \A v \in DocValues : Cardinality(RowsOf("REL", v)) <= 1 /\ Cardinality(RowsOf("RELA", v)) <= 1
    /\ \A v, w \in RetainedValues : KeyOf(v) = KeyOf(w) => v = w

\* The position at which an abbreviation entered the mappings.
FirstRow(value) == MinOf(RowsOf("REL", value) \cup RowsOf("RELA", value))

MatchesOf(attr) ==
    {i \in 1..Len(resourceProperty[attr.SAB]) :
        \/ resourceProperty[attr.SAB][i].code = attr.ATN
        \/ /\ attr.ATN \in DOMAIN mappedProperties
           /\ resourceProperty[attr.SAB][i].code = mappedProperties[attr.ATN]}

\* C26: the attribute pass accepts a row exactly when its source is in the
\* registry, its SUPPRESS flag is 'N' and the vocabulary of the source has a
\* property whose code is the attribute name or its alias-table entry; an
\* accepted row builds exactly one assertion, for the system of its source, with
\* the row's own CODE as code, the matched property's code as property and ATV
\* as value, whatever the AtomIndex holds; any other row builds nothing.
C26_AttributeAcceptance ==
    AtAttributeLoop =>
        \A line \in RowAttributeLines :
            LET attr == UmlsAttribute(line)
                after == AttributeIteration(line)
            IN  IF /\ attr.SAB \in DOMAIN umlsSources
                   /\ attr.SUPPRESS = "N"
                   /\ MatchesOf(attr) # {}
                THEN LET system == umlsSources[attr.SAB].system
                         item == [code |-> attr.CODE,
                                  property |-> resourceProperty[attr.SAB][MinOf(MatchesOf(attr))].code,
                                  value |-> attr.ATV]
                     IN  /\ after.emitted = [emitted EXCEPT ![system] = Append(emitted[system], item)]
                         /\ after.threw = ""
                ELSE /\ after.emitted = emitted
                     /\ after.properties = properties
                     /\ after.processed = processed

\* The pass has accepted a row whose attribute name matches through the alias
\* table, with a code the AtomIndex does not know, and has dropped another row.
C26_Witness ==
    /\ AtAttributeLoop
    /\ nread = 2 /\ processed = 1 /\ skipped = 0
    /\ emitted["http://loinc.org"] =
          <<[code |-> "300", property |-> "COMPONENT", value |-> "Glucose"]>>
    /\ "LNC|300" \notin DOMAIN mappedConcepts

(***************************************************************************)
(* Claims about the warning of the relationship pass.                      *)
(***************************************************************************)
\* C27 as stated: when the relationship pass drops a row for a missing endpoint
\* it logs one warning, which names an atom that is not in the AtomIndex, AUI2
\* if AUI1 is in the index and AUI1 if not; skipped goes up by one, nothing is
\* built and the pass stays at the head of its loop.
C27_WarningNamesAbsentAtom ==
    AtRelationshipLoop =>
        \A line \in RelLines :
            LET rel == UmlsRelationship(line)
                after == RelationshipIteration(line)
            IN  after.warn # <<>> =>
                    /\ Len(after.warn) = 1
                    /\ ~InAtomIndex(after.warn[1].atom)
                    /\ after.warn[1].atom = IF InAtomIndex(rel.AUI1) THEN rel.AUI2 ELSE rel.AUI1
                    /\ after.skipped = skipped + 1
                    /\ NewItems(after) = {}
                    /\ after.pc = "loop" /\ after.threw = ""

\* C27 (amended): a row that reaches the lookup of its endpoints and has an
\* endpoint that is not in the AtomIndex, or whose record has an empty code, is
\* dropped with exactly one warning; the warning carries the property and the
\* labels REL/RELA of the row and names AUI2 if AUI1 is in the index with a
\* non-empty code and AUI1 if not, so the atom it names is missing from the
\* index or has an empty code there; skipped goes up by one, nothing is built
\* and the pass stays at the head of its loop.  No other row logs a warning.
C27_WarningNamesUnresolvedAtom ==
    AtRelationshipLoop =>
        \A line \in RelLines :
            LET rel == UmlsRelationship(line)
                after == RelationshipIteration(line)
            IN  IF ReachesEndpoints(rel) /\ (~Resolves(rel.AUI1) \/ ~Resolves(rel.AUI2))
                THEN /\ Len(after.warn) = 1
                     /\ ~Resolves(after.warn[1].atom)
                     /\ after.warn[1].atom = IF Resolves(rel.AUI1) THEN rel.AUI2 ELSE rel.AUI1
                     /\ after.warn[1].label = rel.REL \o "/" \o rel.RELA
                     /\ after.warn[1].name = ChosenProperty(rel)
                     /\ after.skipped = skipped + 1
                     /\ NewItems(after) = {}
                     /\ after.pc = "loop" /\ after.threw = ""
                ELSE after.warn = <<>>

\* The pass has dropped two rows and is at the head of its loop: one warning
\* names the second endpoint, an atom the index holds with an empty code, and one
\* names an atom the concept pass never indexed.
C27_Witness ==
    /\ AtRelationshipLoop
    /\ nread = 2 /\ skipped = 2 /\ processed = 0
    /\ Len(errlog) = 2
    /\ \E i \in 1..2 : errlog[i].by = "processRelationships" /\ errlog[i].atom = "A3"
    /\ \E i \in 1..2 : errlog[i].by = "processRelationships" /\ errlog[i].atom = "A9"
    /\ InAtomIndex("A3") /\ ~InAtomIndex("A9")

(***************************************************************************)
(* Claims about the summaries of the property passes.                      *)
(***************************************************************************)
\* A property pass has printed its summary and returned.
PropertySummaryPrinted ==
    \/ stage = "main" /\ pc \in {"afterProperties", "afterRelationships"}
    \/ stage = "done"

\* C28: the count lines a property pass prints are the entries of its counts,
\* each once, ordered so that the lines of one system are contiguous and, within
\* one system, the counts do not increase from one line to the next.
C28_SummaryBySystemThenCount ==
    PropertySummaryPrinted =>
        /\ Len(summary) = Len(counts)
        /\ \A i \in 1..Len(counts) : \E j \in 1..Len(summary) : summary[j] = counts[i]
        /\ \A i, j, k \in 1..Len(summary) :
              (i < j /\ j < k /\ summary[i].k[1] = summary[k].k[1])
                  => summary[j].k[1] = summary[i].k[1]
        /\ \A i, j \in 1..Len(summary) :
              (i < j /\ summary[i].k[1] = summary[j].k[1]) => summary[i].v >= summary[j].v

\* The attribute pass has returned with counts that entered in the order loinc,
\* snomed, loinc, the later loinc key with the higher count, and has printed the
\* two loinc lines next to each other, the higher count first.
C28_Witness ==
    /\ stage = "main" /\ pc = "afterProperties"
    /\ Len(counts) = 3 /\ Len(summary) = 3
    /\ counts[1].k[1] = "http://loinc.org" /\ counts[2].k[1] = "http://snomed.info/sct"
    /\ counts[3].k[1] = "http://loinc.org" /\ counts[3].v > counts[1].v
    /\ summary[2] = counts[3] /\ summary[3] = counts[1]

(***************************************************************************)
(* Claims about addSources and the passes.                                 *)
(***************************************************************************)
\* The systems createResourceIfNoneExist has resolved for.
CreatedSystems == {created[i] : i \in 1..Len(created)}

\* A pass has been called: its stream is open, or an earlier pass has returned,
\* or a pass has left something behind.
PassStarted ==
    \/ stage \in {"concepts", "properties", "prepare", "relationships", "main", "done"}
    \/ nread > 0 \/ sent # <<>> \/ inflight # <<>> \/ ledger # <<>> \/ fed # <<>>
    \/ codings # <<>> \/ properties # <<>> \/ counts # <<>>
    \/ DOMAIN mappedConcepts # {}

\* C29: a pass is called only when createResourceIfNoneExist has resolved for
\* every source of the registry, in the order of the registry; every batch that
\* is posted or in flight is for a system whose CodeSystem creation has
\* resolved; and while a creation is outstanding or has been rejected no pass
\* has started.
C29_SourcesBeforePasses ==
    /\ PassStarted =>
          /\ Len(created) = Len(SourceOrder)
          /\ \A i \in 1..Len(SourceOrder) : created[i] = umlsSources[SourceOrder[i]].system
    /\ \A i \in 1..Len(sent) : sent[i].system \in CreatedSystems
    /\ \A i \in 1..Len(inflight) : inflight[i].system \in CreatedSystems
    /\ Len(created) < Len(SourceOrder) => ~PassStarted /\ stage \in {"addSources", "failed"}

\* The concept pass has posted a batch for each system, after both creations.
C29_Witness ==
    /\ stage = "concepts"
    /\ Len(created) = Len(SourceOrder)
    /\ \A s \in Systems : \E i \in 1..Len(sent) : sent[i].system = s /\ sent[i].ack = "ok"

(***************************************************************************)
(* Claims about the processed counter.                                     *)
(***************************************************************************)
RECURSIVE SumSeq(_)
SumSeq(s) == IF s = <<>> THEN 0 ELSE Head(s) + SumSeq(Tail(s))

\* The items of the batches the pass has posted.
ItemsSent == SumSeq([i \in 1..Len(sent) |-> Len(sent[i].items)])

\* The items of the open batches of the pass.
ItemsPending ==
    SumSeq([i \in 1..Len(codings) |-> Len(codings[i].v)])
        + SumSeq([i \in 1..Len(properties) |-> Len(properties[i].v)])

\* The sum of the counts of the pass over its keys.
CountTotal == SumSeq([i \in 1..Len(counts) |-> counts[i].v])

\* C30: when a pass is about to read the next row, processed is the number of
\* items in the batches it has posted plus the number of items in its open
\* batches; when a pass has returned, processed is the number of items in the
\* batches it has posted, and in the attribute and the relationship pass it is
\* also the sum of the counts.
C30_ProcessedAccountsForItems ==
    /\ AtPassLoop => processed = ItemsSent + ItemsPending
    /\ PassReturned => processed = ItemsSent
    /\ (PassReturned /\ pc \in {"afterProperties", "afterRelationships"})
          => processed = CountTotal

\* The relationship pass is about to read a row with a batch posted for one
\* system and an item pending for the other.
C30_Witness ==
    /\ stage = "relationships" /\ pc = "loop"
    /\ ItemsSent = BatchSize /\ ItemsPending = 1
    /\ processed = BatchSize + 1
    /\ \E s \in Systems : Len(SentItems(sent, s)) = 0 /\ Len(OpenBatch(s)) = 1

(***************************************************************************)
(* Claims about the codings of one (source, code).                         *)
(***************************************************************************)
\* The positions of the codings of a code among the codings built for a system.
EmissionsOf(system, code) ==
    {i \in 1..Len(emitted[system]) : emitted[system][i].code = code}

\* The winner of every pair is the record whose coding was built last for it.
WinnerIsLastEmitter ==
    \A k \in WinnerKeys \cap DOMAIN mappedConcepts :
        LET w == mappedConcepts[k]
            system == umlsSources[w.SAB].system
            at == EmissionsOf(system, w.CODE)
        IN  /\ at # {}
            /\ emitted[system][MaxOf(at)] = CodingOf(w)

\* C31: in the concept pass a coding is built for a (source, code) only by its
\* first accepted row or by a row whose term-type index is strictly below that
\* of the record whose coding was built last for the pair, so the indices fall
\* strictly from one coding of the pair to the next and a pair gets at most as
\* many codings as its source has term types; an accepted row that does not
\* become the winner builds nothing and leaves processed and skipped alone.
C31_StrictlyMorePreferredEmits ==
    /\ WinnerIsLastEmitter
    /\ \A k \in WinnerKeys \cap DOMAIN mappedConcepts :
          LET w == mappedConcepts[k]
              system == umlsSources[w.SAB].system
          IN  Cardinality(EmissionsOf(system, w.CODE))
                  <= Len(umlsSources[w.SAB].tty) - TermTypeIndex(w)
    /\ AtConceptLoop =>
          \A line \in ConceptLines :
              LET c == UmlsConcept(line)
                  after == ConceptIteration(line)
                  k == WinnerKey(c)
              IN  AcceptedRow(c) =>
                      IF after.emitted # emitted
                      THEN /\ after.emitted =
                                 Emit(emitted, umlsSources[c.SAB].system, CodingOf(c))
                           /\ after.mappedConcepts[k] = c
                           /\ k \in DOMAIN mappedConcepts =>
                                 TermTypeIndex(c) < TermTypeIndex(mappedConcepts[k])
                      ELSE /\ k \in DOMAIN mappedConcepts
                           /\ after.mappedConcepts[k] = mappedConcepts[k]
                           /\ after.mappedConcepts[k] # c
                                 \/ TermTypeIndex(c) = TermTypeIndex(mappedConcepts[k])
                           /\ after.processed = processed
                           /\ after.skipped = skipped
                           /\ after.codings = codings /\ after.sent = sent

\* A code has had a coding built for each term type of its source, the least
\* preferred first, and the record of the most preferred term type is its winner.
C31_Witness ==
    /\ AtConceptLoop
    /\ \E k \in WinnerKeys \cap DOMAIN mappedConcepts :
          LET w == mappedConcepts[k]
              system == umlsSources[w.SAB].system
          IN  /\ TermTypeIndex(w) = 0
              /\ Cardinality(EmissionsOf(system, w.CODE)) = Len(umlsSources[w.SAB].tty)
              /\ \E r \in AcceptedFor(k) : r # w /\ TermTypeIndex(r) > 0

(***************************************************************************)
(* The concept pass alone on rows of every filter branch, suppressed or    *)
(* not, with the lines it has read kept as history.                        *)
(***************************************************************************)
MaxSkipLines == 3

\* Rows of a registry and an unknown source, in English or not, of an accepted
\* or an unknown term type, suppressed or not, and a row cut before SUPPRESS.
SkipLines ==
    { ConceptRow(lat, "A1", sab, tty, "100", AtomStr["A1"], sup) :
        lat \in {"ENG", "SPA"}, sab \in {"SNOMEDCT_US", "MSH"},
        tty \in {"FN", "PT", "XX"}, sup \in {"N", "O"} } \cup
    { SubSeq(ConceptRow("ENG", "A1", "SNOMEDCT_US", "PT", "100", AtomStr["A1"], "N"), 1, 16) }

\* The stream yields one more line.
SkipLine ==
    \E line \in SkipLines :
        /\ Len(fed) < MaxSkipLines
        /\ ProcessConceptLine(line)
        /\ fed' = Append(fed, line)
        /\ UNCHANGED <<accepted, run, todo, first, ledger>>

NextSkip ==
    \/ SkipLine
    \/ ConceptSendOk
    \/ ConceptSendFail
    \/ ConceptEnd
    \/ ConceptFinal
    \/ ConceptFinalSendOk

SpecSkip == InitConcepts /\ [][NextSkip]_vars

\* A record of a registry source, in English, of an accepted term type, whose
\* SUPPRESS flag is not 'N'.
SuppressedRow(c) ==
    /\ c.SAB \in DOMAIN umlsSources
    /\ c.LAT = "ENG"
    /\ \E i \in 1..Len(umlsSources[c.SAB].tty) : umlsSources[c.SAB].tty[i] = c.TTY
    /\ c.SUPPRESS # "N"

\* C32: at every point of the concept pass, and after it, skipped is the number
\* of the lines read so far whose record has a registry source, language ENG,
\* an accepted term type and a SUPPRESS flag other than 'N'; a line rejected by
\* the source, the language or the term-type test is not among them, whatever
\* its SUPPRESS flag.
C32_SkippedCountsSuppressed ==
    skipped = Cardinality({i \in 1..Len(fed) : SuppressedRow(UmlsConcept(fed[i]))})

\* Three lines have been read: two counted as skipped, and one with a SUPPRESS
\* flag other than 'N' that an earlier test rejected and that was not counted.
C32_Witness ==
    /\ stage = "concepts" /\ Len(fed) = 3
    /\ skipped = 2
    /\ \E i \in 1..Len(fed) :
          /\ UmlsConcept(fed[i]).SUPPRESS # "N"
          /\ ~SuppressedRow(UmlsConcept(fed[i]))

(***************************************************************************)
(* The whole run on relationship rows of every branch of the loop, with    *)
(* the relationship lines read kept as history.                            *)
(***************************************************************************)
\* Rows of an unknown source, suppressed rows, rows with a label that maps to
\* no property, rows with an absent or an empty-code endpoint, and rows that
\* build an item, one of them a row of LNC between two atoms of SNOMEDCT_US.
SkipRelLines ==
    { RelationshipRow("A1", "PAR", "A2", "", "MSH", "O"),
      RelationshipRow("A1", "PAR", "A2", "", "SNOMEDCT_US", "O"),
      RelationshipRow("A9", "RO", "A9", "", "SNOMEDCT_US", "O"),
      RelationshipRow("A1", "RO", "A9", "", "SNOMEDCT_US", "N"),
      RelationshipRow("A1", "PAR", "A9", "", "SNOMEDCT_US", "N"),
      RelationshipRow("A1", "PAR", "A3", "", "SNOMEDCT_US", "N"),
      RelationshipRow("A1", "PAR", "A2", "", "SNOMEDCT_US", "N"),
      RelationshipRow("A2", "CHD", "A1", "isa", "SNOMEDCT_US", "N"),
      RelationshipRow("A1", "PAR", "A2", "", "LNC", "N"),
      RelationshipRow("A2", "CHD", "A1", "isa", "LNC", "N"),
      RelationshipRow("A1", "RO", "A2", "", "LNC", "N") }

SkipRelLine ==
    \E line \in SkipRelLines :
        /\ nread < MaxRelLines
        /\ ProcessRelationshipLine(line)
        /\ fed' = Append(fed, line)
        /\ UNCHANGED <<accepted, run, todo, first, ledger>>

NextSkipRel ==
    \/ AddSource
    \/ AddSourceFail
    \/ EnterConcepts
    \/ RelConceptLine
    \/ ConceptSendOk
    \/ ConceptSendFail
    \/ ConceptEnd
    \/ ConceptFinal
    \/ ConceptFinalSendOk
    \/ EnterProperties
    \/ AttributeEnd
    \/ AttributeFinal
    \/ EnterPrepare
    \/ RelDocLine
    \/ PrepareEnd
    \/ EnterRelationships
    \/ SkipRelLine
    \/ RelationshipSendOk
    \/ RelationshipSendFail
    \/ RelationshipEnd
    \/ RelationshipFinal
    \/ RelationshipFinalSendOk
    \/ Done

SpecSkipRel == InitMain /\ [][NextSkipRel]_vars

\* The relationship records read so far, in the order read.
RelsRead == [i \in 1..Len(fed) |-> UmlsRelationship(fed[i])]

\* A row of a registry source whose SUPPRESS flag is not 'N'.
SuppressedKnown(rel) == rel.SAB \in DOMAIN umlsSources /\ rel.SUPPRESS # "N"

\* The atom is absent from the AtomIndex or its record has no code.
EndpointMissing(aui) ==
    \/ aui \notin DOMAIN mappedConcepts
    \/ mappedConcepts[aui].CODE \in {"", Undefined}

\* A row of a registry source that is not suppressed.
LiveRow(rel) == rel.SAB \in DOMAIN umlsSources /\ rel.SUPPRESS = "N"

\* The label of the row maps to a property (lines 1077-1089).
Mappable(rel) == ChosenProperty(rel) \notin {"", Undefined}

MissingEndpointRow(rel) ==
    /\ LiveRow(rel) /\ Mappable(rel)
    /\ EndpointMissing(rel.AUI1) \/ EndpointMissing(rel.AUI2)

\* The warnings processRelationships has logged.
RelationshipWarnings == {i \in 1..Len(errlog) : errlog[i].by = "processRelationships"}

\* C33: in and after the relationship pass, skipped is the number of rows read
\* that have a registry source and are suppressed plus the number of rows read
\* that are not suppressed, have a mappable label and have an endpoint that is
\* absent from the AtomIndex or has an empty code, and there is one warning for
\* each row of the second kind; a row whose label maps to no property adds
\* nothing to skipped and logs nothing, also when its endpoints are missing.
C33_RelationshipSkipped ==
    /\ (stage = "relationships" \/ fed # <<>>) =>
          /\ skipped = Cardinality({i \in 1..Len(fed) : SuppressedKnown(RelsRead[i])})
                       + Cardinality({i \in 1..Len(fed) : MissingEndpointRow(RelsRead[i])})
          /\ Cardinality(RelationshipWarnings)
                = Cardinality({i \in 1..Len(fed) : MissingEndpointRow(RelsRead[i])})
    /\ AtRelationshipLoop =>
          \A line \in SkipRelLines :
              LET rel == UmlsRelationship(line)
                  after == RelationshipIteration(line)
              IN  (LiveRow(rel) /\ ~Mappable(rel)) =>
                      /\ after.skipped = skipped /\ after.warn = <<>>
                      /\ after.emitted = emitted /\ after.processed = processed

\* Three rows have been read: a suppressed one, one with a mappable label and an
\* absent endpoint, and one with an unmappable label and an absent endpoint;
\* skipped is two and one warning was logged.
C33_Witness ==
    /\ stage = "relationships" /\ Len(fed) = 3
    /\ skipped = 2
    /\ Cardinality(RelationshipWarnings) = 1
    /\ \E i \in 1..3 : SuppressedKnown(RelsRead[i])
    /\ \E i \in 1..3 : MissingEndpointRow(RelsRead[i])
    /\ \E i \in 1..3 : /\ LiveRow(RelsRead[i]) /\ ~Mappable(RelsRead[i])
                       /\ EndpointMissing(RelsRead[i].AUI2)

(***************************************************************************)
(* Claims about the destination of a relationship assertion.               *)
(***************************************************************************)
\* The row builds an assertion: registry source, not suppressed, a mappable
\* label and two endpoints that resolve to a code.
BuildsAssertion(rel) ==
    /\ LiveRow(rel) /\ Mappable(rel)
    /\ ~EndpointMissing(rel.AUI1) /\ ~EndpointMissing(rel.AUI2)

AssertionOf(rel) ==
    [code |-> mappedConcepts[rel.AUI1].CODE, property |-> ChosenProperty(rel),
     value |-> mappedConcepts[rel.AUI2].CODE]

\* The assertions of the rows whose own source has the system, in the order of
\* the rows.
RECURSIVE AssertionsFor(_, _)
AssertionsFor(rels, system) ==
    IF rels = <<>> THEN <<>>
    ELSE (IF BuildsAssertion(Head(rels)) /\ umlsSources[Head(rels).SAB].system = system
          THEN <<AssertionOf(Head(rels))>> ELSE <<>>)
         \o AssertionsFor(Tail(rels), system)

\* C34: the assertions the relationship pass has built for a system are those
\* of the rows read whose own source (SAB) has that system, in the order read,
\* whatever the sources of the two atoms; every batch posted for a system is
\* made of them, and what is not posted yet is in the open batch of that
\* system.
C34_AssertionGoesToRowSource ==
    (stage = "relationships" /\ pc \in {"loop", "send", "final", "finalSend"}) =>
        \A system \in Systems :
            /\ emitted[system] = AssertionsFor(RelsRead, system)
            /\ pc = "loop" =>
                  SentItems(sent, system) \o OpenBatch(system)
                      = AssertionsFor(RelsRead, system)
            /\ \A i \in 1..Len(sent) :
                  sent[i].system = system =>
                      \A j \in 1..Len(sent[i].items) :
                          \E n \in 1..Len(fed) :
                              /\ BuildsAssertion(RelsRead[n])
                              /\ umlsSources[RelsRead[n].SAB].system = system
                              /\ sent[i].items[j] = AssertionOf(RelsRead[n])

\* A batch was posted for the system of LNC with the assertion of a row of LNC
\* whose two atoms are atoms of SNOMEDCT_US.
C34_Witness ==
    /\ stage = "relationships"
    /\ \E i \in 1..Len(sent), n \in 1..Len(fed) :
          LET rel == RelsRead[n] IN
          /\ sent[i].system = umlsSources["LNC"].system
          /\ rel.SAB = "LNC" /\ BuildsAssertion(rel)
          /\ mappedConcepts[rel.AUI1].SAB = "SNOMEDCT_US"
          /\ mappedConcepts[rel.AUI2].SAB = "SNOMEDCT_US"
          /\ sent[i].items = <<AssertionOf(rel)>>

(***************************************************************************)
(* Claims about the keys of the derived map.                               *)
(***************************************************************************)
\* String.prototype.startsWith
StartsWith(str, prefix) ==
    Len(str) >= Len(prefix) /\ SubSeq(str, 1, Len(prefix)) = prefix

\* The property codes a row of the source can be filed under without the
\* derived map: the parent property for PAR, the child property for CHD.
HierarchyCodes(rel) ==
    IF rel.REL = "PAR" THEN {PropertyOfUri(rel.SAB, PARENT_PROPERTY)} \ {""}
    ELSE IF rel.REL = "CHD" THEN {PropertyOfUri(rel.SAB, CHILD_PROPERTY)} \ {""}
    ELSE {}

\* C35: every key of the map prepareRelationshipProperties has returned starts
\* with 'SNOMEDCT_US/'; a row of another registry source finds no entry in it,
\* and the only assertion it can build carries the parent property of its source
\* if its REL is PAR and the child property of its source if its REL is CHD.
C35_DerivedMapIsSnomedOnly ==
    /\ \A k \in DOMAIN relationshipProperties : StartsWith(k, "SNOMEDCT_US/")
    /\ AtRelationshipLoop =>
          \A line \in SkipRelLines :
              LET rel == UmlsRelationship(line)
                  after == RelationshipIteration(line)
              IN  (rel.SAB \in DOMAIN umlsSources /\ rel.SAB # "SNOMEDCT_US") =>
                      /\ (rel.SAB \o "/" \o rel.REL \o "/" \o rel.RELA)
                             \notin DOMAIN relationshipProperties
                      /\ \A item \in NewItems(after) : item.property \in HierarchyCodes(rel)
                      /\ \A i \in 1..Len(after.warn) : after.warn[i].name \in HierarchyCodes(rel)

\* The derived map has an entry for CHD/isa and the relationship pass has built
\* the assertion of a LNC row labelled CHD/isa under the child property of LNC.
C35_Witness ==
    /\ stage = "relationships"
    /\ "SNOMEDCT_US/CHD/isa" \in DOMAIN relationshipProperties
    /\ \E n \in 1..Len(fed) :
          /\ RelsRead[n].SAB = "LNC" /\ RelsRead[n].REL = "CHD" /\ RelsRead[n].RELA = "isa"
          /\ BuildsAssertion(RelsRead[n])
          /\ AssertionOf(RelsRead[n]).property = "child"
          /\ \E j \in 1..Len(emitted[umlsSources["LNC"].system]) :
                emitted[umlsSources["LNC"].system][j] = AssertionOf(RelsRead[n])

(***************************************************************************)
(* Claims about the two kinds of key of the AtomIndex.                     *)
(***************************************************************************)
\* The string contains the column delimiter.
HasDelimiter(str) == \E i \in 1..Len(str) : SubSeq(str, i, i) = "|"

\* C36: a key of the AtomIndex that contains '|' holds the winner of the
\* (source, code) it spells, a key that does not holds the record of the atom
\* it names; the winner key of a row always contains '|' and its atom id never
\* does, so storing a winner leaves every atom entry as line 715 left it; and
\* the atom ids the relationship pass looks up contain no '|', so what a lookup
\* finds is the entry of that atom.
C36_KeySpacesDisjoint ==
    /\ \A k \in DOMAIN mappedConcepts :
          IF HasDelimiter(k) THEN WinnerKey(mappedConcepts[k]) = k
          ELSE mappedConcepts[k].AUI = k
    /\ AtConceptLoop =>
          \A line \in RelConceptLines :
              LET c == UmlsConcept(line)
                  after == ConceptIteration(line)
              IN  AcceptedRow(c) =>
                      /\ HasDelimiter(WinnerKey(c)) /\ ~HasDelimiter(c.AUI)
                      /\ \A k \in DOMAIN after.mappedConcepts :
                            ~HasDelimiter(k) =>
                                after.mappedConcepts[k] = IndexAtom(mappedConcepts, c)[k]
    /\ AtRelationshipLoop =>
          \A line \in SkipRelLines :
              \A aui \in {UmlsRelationship(line).AUI1, UmlsRelationship(line).AUI2} :
                  /\ ~HasDelimiter(aui)
                  /\ aui \in DOMAIN mappedConcepts => mappedConcepts[aui].AUI = aui

\* The relationship pass has resolved the two atoms of a row in an index that
\* holds atom entries and winner entries.
C36_Witness ==
    /\ stage = "relationships"
    /\ Cardinality({k \in DOMAIN mappedConcepts : HasDelimiter(k)}) >= 2
    /\ Cardinality({k \in DOMAIN mappedConcepts : ~HasDelimiter(k)}) >= 2
    /\ \E n \in 1..Len(fed) : BuildsAssertion(RelsRead[n])

(***************************************************************************)
(* Claims about the batch a capacity flush of a property pass posts.       *)
(***************************************************************************)
AtPropertyLoop == stage \in {"properties", "relationships"} /\ pc = "loop"

\* The rows the pass that is running can read.
PropertyRows == IF stage = "properties" THEN RunAttributeLines ELSE RunRelationshipLines

\* The iteration of the pass that is running.
PropertyIteration(line) ==
    IF stage = "properties" THEN AttributeIteration(line) ELSE RelationshipIteration(line)

\* C37: in the attribute and the relationship pass an iteration never reads an
\* undefined batch; when an iteration ends in a capacity flush, the map already
\* held a batch for the system, the batch that is posted is that batch with the
\* item of the row appended, and it is the batch the map holds; the first item
\* built for a system is stored in the map and posts nothing.
C37_FlushPostsStoredBatch ==
    AtPropertyLoop =>
        \A line \in PropertyRows :
            LET after == PropertyIteration(line) IN
            /\ after.threw = ""
            /\ \A system \in Systems :
                  after.emitted[system] # emitted[system] =>
                      LET item == after.emitted[system][Len(after.emitted[system])] IN
                      /\ after.emitted[system] = Append(emitted[system], item)
                      /\ IF after.pc = "send"
                         THEN /\ Has(properties, system)
                              /\ Len(after.inflight) = 1
                              /\ after.inflight[1].system = system
                              /\ after.inflight[1].items
                                    = Append(Get(properties, system), item)
                              /\ after.inflight[1].items = Get(after.properties, system)
                              /\ after.sent = Append(sent, Posted(system,
                                                  after.inflight[1].items, "capacity"))
                         ELSE /\ after.pc = "loop" /\ after.sent = sent
                              /\ Get(after.properties, system)
                                    = (IF Has(properties, system)
                                       THEN Append(Get(properties, system), item)
                                       ELSE <<item>>)

\* The relationship pass has posted a full batch for a system from its loop,
\* the first item of which was stored without a post, and the batch of the
\* system in the map is empty again.
C37_Witness ==
    /\ stage = "relationships" /\ pc = "loop"
    /\ \E i \in 1..Len(sent) :
          /\ sent[i].at = "capacity" /\ sent[i].ack = "ok"
          /\ Len(sent[i].items) = BatchSize
          /\ Has(properties, sent[i].system)
          /\ Get(properties, sent[i].system) = <<>>

====
